---- MODULE Spec2Model ----
(***************************************************************************)
(* chimerascan: discordant-read locus clustering                           *)
(* (pipeline/cluster_discordant_reads.py) and chimera filtering            *)
(* (deprecated/filter_chimeras_v2.py).                                     *)
(*                                                                         *)
(* Specifications:                                                         *)
(*   SpecLoci  cluster_loci, the generator, over a stream of records       *)
(*   SpecTree  the ClusterTree(0,1) instances add_reads_to_clusters builds *)
(*   Spec      add_reads_to_clusters and the loop of                       *)
(*             cluster_discordant_reads that threads next_cluster_id       *)
(*   SpecFilter  filter_chimeras and its predicates                        *)
(*   SpecInnerDist, SpecIsoform  filter_inner_dist and                     *)
(*             filter_chimeric_isoform_fraction, each called on its own    *)
(*   SpecMerge  the call of merge_spanning_alignments in                   *)
(*             run_chimerascan.py                                          *)
(***************************************************************************)
EXTENDS Integers, Sequences, FiniteSets, TLC

VARIABLES
    \* ---- cluster_loci (SpecLoci)
    bam_iter,       \* the records the iterator delivers, in order
    lpc,            \* position of the generator
    idx,            \* number of records the iterator has delivered
    window,         \* indexes (into bam_iter) of the records of the window
    window_range,   \* <<rname, min start, max end>> of the window
    loci,           \* the windows yielded so far
    \* ---- ClusterTree (SpecTree)
    tree_ivs,       \* the labelled intervals to insert: label k is tree_ivs[k]
    tree,           \* the cluster tree
    tree_todo,      \* labels not inserted yet
    \* ---- add_reads_to_clusters and its caller (Spec)
    cpc,            \* position in cluster_discordant_reads
    reads,          \* locus_reads: the records of the current locus
    tags,           \* tags[k]: the cluster tag of reads[k], or NoTag
    locus_clusters, \* the clusters add_reads_to_clusters returned
    next_cluster_id,
    outfh,          \* cluster id column of the rows printed to outfh
    \* ---- filter_inner_dist (SpecInnerDist)
    fid_c,          \* the chimera it is applied to
    fid_max_isize,  \* max_isize
    fid_result,     \* what it returned, or NotCalled
    \* ---- filter_chimeras (SpecFilter)
    fpc,            \* position in filter_chimeras
    max_isize,      \* parameters of the run
    isoform_fraction,
    false_pos_pairs,
    bam,            \* the alignments of bam_file
    num_chimeras,   \* rows read from input_file
    fc_c,           \* c of filter_chimeras: <<the candidate of the row>>, or <<>>
    tmp_file,       \* rows of the temporary table, or Removed
    kept_chimeras,  \* names get_highest_coverage_isoforms returned
    output_file,    \* rows of output_file
    \* ---- filter_chimeric_isoform_fraction (SpecIsoform)
    icf_c,          \* the chimera it is applied to
    icf_frac,       \* frac, in tenths
    icf_median_isize,
    icf_bam,        \* the alignments of bamfh
    icf_result,     \* <<what it returned>>, or <<>>
    \* ---- run_chimerascan, the spanning-evidence merge (SpecMerge)
    mpc,            \* position in main
    options,        \* the anchor options of the run
    anchor_args,    \* <<the anchor arguments of merge_spanning_alignments>>
    span_read,      \* <<the realigned read taken last>>, or <<>>
    num_span_reads, \* realigned reads taken
    num_spanning,   \* reads attached to their candidate
    \* ---- InsertSizeDistribution.from_bam (SpecIsize)
    fb_pc,          \* position in from_bam
    fb_bamfh,       \* the read pairs of bamfh, in file order
    fb_idx,         \* read pairs taken from bamfh
    fb_min_isize,   \* min_isize
    fb_max_isize,   \* max_isize
    fb_max_samples, \* max_samples, or NoLimit for None
    fb_arr,         \* res.arr, the histogram
    fb_count,       \* count
    \* ---- merge_read_pairs (SpecPairs)
    mrp_pc,         \* position in merge_read_pairs
    mrp_library_type, \* library_type, a pair of read strands
    mrp_pe_reads,   \* <<pe_reads, the fragment taken last>>, or <<>>
    output_bamfh,   \* the records written to output_bamfh
    num_paired,     \* fragments with a concordant pair
    num_unpaired,   \* fragments without one
    num_fragments,  \* fragments taken from bamfh
    \* ---- a candidate table written and read again (SpecTable)
    tbl_pc,         \* position in the write and reread of a table
    table,          \* the candidates that are written
    table_text,     \* the rows as written, a text per field
    reparsed        \* the candidates Chimera.parse yields from the rows

lociVars == <<bam_iter, lpc, idx, window, window_range, loci>>
treeVars == <<tree_ivs, tree, tree_todo>>
clusterVars == <<cpc, reads, tags, locus_clusters,
                 next_cluster_id, outfh>>

innerDistVars == <<fid_c, fid_max_isize, fid_result>>
filterVars == <<fpc, max_isize, isoform_fraction, false_pos_pairs, bam,
                num_chimeras, fc_c, tmp_file, kept_chimeras, output_file>>
isoformVars == <<icf_c, icf_frac, icf_median_isize, icf_bam, icf_result>>

mergeVars == <<mpc, options, anchor_args, span_read, num_span_reads,
               num_spanning>>

isizeVars == <<fb_pc, fb_bamfh, fb_idx, fb_min_isize, fb_max_isize, fb_max_samples, fb_arr, fb_count>>

pairsVars == <<mrp_pc, mrp_library_type, mrp_pe_reads, output_bamfh, num_paired, num_unpaired, num_fragments>>

tableVars == <<tbl_pc, table, table_text, reparsed>>

vars == <<lociVars, treeVars, clusterVars, innerDistVars, filterVars,
          isoformVars, mergeVars,
          isizeVars,
          pairsVars,
          tableVars>>

\* what the actions of one component leave alone
notLoci == <<treeVars, clusterVars, innerDistVars, filterVars,
    isoformVars, mergeVars,
    isizeVars,
    pairsVars,
    tableVars>>
notTree == <<lociVars, clusterVars, innerDistVars, filterVars,
    isoformVars, mergeVars,
    isizeVars,
    pairsVars,
    tableVars>>
notCluster == <<lociVars, treeVars, innerDistVars, filterVars,
    isoformVars, mergeVars,
    isizeVars,
    pairsVars,
    tableVars>>
notInnerDist == <<lociVars, treeVars, clusterVars, filterVars,
    isoformVars, mergeVars,
    isizeVars,
    pairsVars,
    tableVars>>
notFilter == <<lociVars, treeVars, clusterVars, innerDistVars, isoformVars,
    mergeVars,
    isizeVars,
    pairsVars,
    tableVars>>
notIsoform == <<lociVars, treeVars, clusterVars, innerDistVars, filterVars,
    mergeVars,
    isizeVars,
    pairsVars,
    tableVars>>
notMerge == <<lociVars, treeVars, clusterVars, innerDistVars, filterVars,
    isoformVars,
    isizeVars,
    pairsVars,
    tableVars>>
notIsize == <<lociVars, treeVars, clusterVars, innerDistVars,
    filterVars, isoformVars, mergeVars,
    pairsVars,
    tableVars>>
notPairs == <<lociVars, treeVars, clusterVars, innerDistVars,
    filterVars, isoformVars, mergeVars, isizeVars,
    tableVars>>
notTable == <<lociVars, treeVars, clusterVars, innerDistVars,
    filterVars, isoformVars, mergeVars, isizeVars, pairsVars>>

\* ------------------------------------------------------------------ bounds
MaxReads == 3       \* longest record stream given to cluster_loci
MaxCoord == 3       \* largest coordinate of a generated record
MaxIntervals == 3   \* most intervals inserted into one ClusterTree
MaxLocusReads == 2  \* most records in one call of add_reads_to_clusters
MaxClusterId == 3   \* no further locus is taken once the counter is here
MaxInnerDist == 3   \* largest inner distance and max_isize tried
MaxAnchor == 2      \* longest anchor of a realigned read, largest --anchor-min
MaxSpanReads == 2   \* most realigned reads merged in one run
MaxChimeras == 2    \* most rows of the candidate table
MedianIsize == 2    \* the run's --median-isize

\* ------------------------------------------------------------- helpers
Min(a, b) == IF a <= b THEN a ELSE b
Max(a, b) == IF a >= b THEN a ELSE b

RECURSIVE Flatten(_)
Flatten(ss) == IF ss = <<>> THEN <<>> ELSE Head(ss) \o Flatten(Tail(ss))

\* ---------------------------------------------------------- input records
\* pysam reference ids (AlignedRead.rname is the integer tid)
RefIds == {0, 1}

\* the fields cluster_loci reads of a record: r.rname, r.pos, r.aend
LociRecords ==
    {[rname |-> t, pos |-> s, aend |-> e] :
        t \in RefIds, s \in 0..MaxCoord, e \in 0..MaxCoord} \
    {r \in [rname : RefIds, pos : 0..MaxCoord, aend : 0..MaxCoord] : r.pos >= r.aend}

\* the sorted records of the specification's example
ExampleStream ==
    << [rname |-> 0, pos |-> 0,  aend |-> 10],
       [rname |-> 0, pos |-> 5,  aend |-> 15],
       [rname |-> 0, pos |-> 50, aend |-> 60] >>

Streams ==
    UNION {[1..n -> LociRecords] : n \in 0..MaxReads} \cup {ExampleStream}

\* sorted by (reference id, start)
IsSorted(s) ==
    \A k \in 1..(Len(s) - 1) :
        \/ s[k].rname < s[k+1].rname
        \/ (s[k].rname = s[k+1].rname /\ s[k].pos <= s[k+1].pos)

\* ------------------------------------------------------------ cluster_loci
\* a mutant: containment instead of overlap
window_overlap_contains(a, b) ==
    IF a[1] # b[1] THEN FALSE
    ELSE (a[2] <= b[2]) /\ (b[3] <= a[3])

\* a mutant: strict comparison (half-open overlap)
window_overlap_strict(a, b) ==
    IF a[1] # b[1] THEN FALSE
    ELSE (a[2] < b[3]) /\ (b[2] < a[3])

\* window_overlap(a, b), a and b being (rname, start, end)
window_overlap(a, b) ==
    IF a[1] # b[1] THEN FALSE
    ELSE (a[2] <= b[3]) /\ (b[2] <= a[3])

RecInterval(r) == <<r.rname, r.pos, r.aend>>

LociIdle ==
    /\ bam_iter = <<>>
    /\ lpc = "idle"
    /\ idx = 0
    /\ window = <<>>
    /\ window_range = <<>>
    /\ loci = <<>>

LociInit ==
    /\ bam_iter \in Streams
    /\ lpc = "start"
    /\ idx = 0
    /\ window = <<>>
    /\ window_range = <<>>
    /\ loci = <<>>

\* line 24-25: window = [bam_iter.next()]. On an empty iterator next() raises
\* StopIteration, the except clause passes, and line 45 reads the local
\* `window`, which was never bound: UnboundLocalError.
LociStart ==
    /\ lpc = "start"
    /\ \/ /\ Len(bam_iter) = 0
          /\ lpc' = "UnboundLocalError"
          /\ UNCHANGED <<idx, window, window_range>>
       \/ /\ Len(bam_iter) > 0
          /\ idx' = 1
          /\ window' = <<1>>
          /\ window_range' = RecInterval(bam_iter[1])
          /\ lpc' = "loop"
    /\ UNCHANGED <<bam_iter, loci, notLoci>>

\* lines 27-41: one iteration of `for r in bam_iter`
LociStep ==
    /\ lpc = "loop"
    /\ idx < Len(bam_iter)
    /\ LET r == bam_iter[idx + 1]
           interval == RecInterval(r)
       IN  \/ /\ ~window_overlap(interval, window_range)
              /\ loci' = Append(loci, window)
              /\ window' = <<idx + 1>>
              /\ window_range' = interval
           \/ /\ window_overlap(interval, window_range)
              /\ window' = Append(window, idx + 1)
              /\ window_range' = <<r.rname,
                                   Min(window_range[2], r.pos),
                                   Max(window_range[3], r.aend)>>
              /\ loci' = loci
    /\ idx' = idx + 1
    /\ UNCHANGED <<bam_iter, lpc, notLoci>>

\* lines 44-46: the iterator is exhausted; yield the last window
LociFinish ==
    /\ lpc = "loop"
    /\ idx = Len(bam_iter)
    /\ loci' = IF Len(window) > 0 THEN Append(loci, window) ELSE loci
    /\ lpc' = "done"
    /\ UNCHANGED <<bam_iter, idx, window, window_range, notLoci>>

LociNext == LociStart \/ LociStep \/ LociFinish


\* ------------------------------------------------------------ ClusterTree
\* chimerascan.bx.cluster.ClusterTree, as the specification describes it
\* (IntervalClusterTree): a set of clusters (start, end, labels), no two of
\* which lie within mincols of one another.
Intervals ==
    {iv \in (0..MaxCoord) \X (0..MaxCoord) : iv[1] < iv[2]}

ExampleIntervals == << <<5, 10>>, <<9, 14>>, <<20, 25>> >>

RECURSIVE SortedSeq(_)
SortedSeq(S) ==
    IF S = {} THEN <<>>
    ELSE LET m == CHOOSE x \in S : \A y \in S : x <= y
         IN  <<m>> \o SortedSeq(S \ {m})

ClusterTree(mincols, minregions) ==
    [mincols |-> mincols, minregions |-> minregions, clusters |-> {}]

\* insert(start, end, label): the new interval is merged with every cluster
\* that overlaps it or lies within mincols of it
ClusterTreeInsert(t, s, e, id) ==
    LET hit == {c \in t.clusters :
                    (s - t.mincols <= c.e) /\ (e + t.mincols >= c.s)}
        lo == IF \E c \in hit : c.s < s
              THEN CHOOSE x \in {c.s : c \in hit} : \A c \in hit : x <= c.s
              ELSE s
        hi == IF \E c \in hit : c.e > e
              THEN CHOOSE x \in {c.e : c \in hit} : \A c \in hit : x >= c.e
              ELSE e
        merged == [s |-> lo, e |-> hi,
                   ids |-> UNION {c.ids : c \in hit} \cup {id}]
    IN  [t EXCEPT !.clusters = (t.clusters \ hit) \cup {merged}]

RECURSIVE RegionsOf(_)
RegionsOf(cs) ==
    IF cs = {} THEN <<>>
    ELSE LET c == CHOOSE x \in cs : \A y \in cs : x.s <= y.s
         IN  << <<c.s, c.e, SortedSeq(c.ids)>> >> \o RegionsOf(cs \ {c})

\* getregions(): (start, end, sorted labels) of every cluster of at least
\* minregions intervals, ordered by start
ClusterTreeGetRegions(t) ==
    RegionsOf({c \in t.clusters : Cardinality(c.ids) >= t.minregions})

\* a mutant of line 50: ClusterTree(1,1), a gap of one base still merges
NewClusterTree_Gap1 == ClusterTree(1, 1)

\* lines 50-53: the default factory, lambda: ClusterTree(0,1)
NewClusterTree == ClusterTree(0, 1)

\* a mutant of line 61: the read's start is inserted as both ends
InsertRead_StartOnly(t, r, i) == ClusterTreeInsert(t, r.pos, r.pos, i)

\* line 61: cluster_tree.insert(r.pos, r.aend, i)
InsertRead(t, r, i) == ClusterTreeInsert(t, r.pos, r.aend, i)

AsRead(iv) == [pos |-> iv[1], aend |-> iv[2]]

TreeIdle ==
    /\ tree_ivs = <<>>
    /\ tree = NewClusterTree
    /\ tree_todo = {}

TreeInit ==
    /\ tree_ivs \in UNION {[1..n -> Intervals] : n \in 0..MaxIntervals}
                        \cup {ExampleIntervals}
    /\ tree = NewClusterTree
    /\ tree_todo = 1..Len(tree_ivs)

\* one insert; the intervals are taken in any order
TreeInsert ==
    /\ \E k \in tree_todo :
          /\ tree' = InsertRead(tree, AsRead(tree_ivs[k]), k)
          /\ tree_todo' = tree_todo \ {k}
    /\ UNCHANGED <<tree_ivs, notTree>>

TreeNext == TreeInsert

\* the tree the same intervals make when inserted in label order
RECURSIVE InsertInOrder(_, _, _)
InsertInOrder(t, ivs, k) ==
    IF k > Len(ivs) THEN t
    ELSE InsertInOrder(InsertRead(t, AsRead(ivs[k]), k), ivs, k + 1)


\* ------------------------------------------------- add_reads_to_clusters
\* chimerascan.lib.chimera: ORIENTATION_5P, ORIENTATION_3P (imported, line 14)
ORIENTATION_5P == "ORIENTATION_5P"
ORIENTATION_3P == "ORIENTATION_3P"
\* a record whose tags hold no DISCORDANT_CLUSTER_TAG (cluster ids are >= 0)
NoTag == -1

\* the keys of cluster_trees, lines 50-53
Buckets ==
    {<<"+", ORIENTATION_5P>>, <<"+", ORIENTATION_3P>>,
     <<"-", ORIENTATION_5P>>, <<"-", ORIENTATION_3P>>}

QNames == {"q1", "q2"}

\* the intervals of the records add_reads_to_clusters is applied to: apart,
\* adjacent, overlapping, one within another
LocusIntervals == {<<0, 1>>, <<1, 2>>, <<2, 3>>, <<0, 3>>}

ReadRecords ==
    {[rname |-> 0, pos |-> iv[1], aend |-> iv[2], strand |-> st,
      orient |-> o, qname |-> q] :
        iv \in LocusIntervals, st \in {"+", "-"},
        o \in {ORIENTATION_5P, ORIENTATION_3P}, q \in QNames}

\* the lists add_reads_to_clusters is applied to; the windows cluster_loci
\* yields (IsWindow) are among them
ReadLists == UNION {[1..n -> ReadRecords] : n \in 1..MaxLocusReads}

\* what cluster_loci yields as one window: every record after the first
\* overlaps the running bounds of the records before it
RECURSIVE IsWindowFrom(_, _, _)
IsWindowFrom(rs, k, wr) ==
    IF k > Len(rs) THEN TRUE
    ELSE /\ window_overlap(RecInterval(rs[k]), wr)
         /\ IsWindowFrom(rs, k + 1, <<rs[k].rname, Min(wr[2], rs[k].pos),
                                      Max(wr[3], rs[k].aend)>>)

IsWindow(rs) == rs # <<>> /\ IsWindowFrom(rs, 2, RecInterval(rs[1]))

\* a mutant of lines 56-59: the orientation tag is not part of the key
BucketKey_StrandOnly(r) == <<r.strand, ORIENTATION_5P>>

\* lines 56-59: (strand, orientation) = (r.opt('XS'), r.opt(ORIENTATION_TAG))
BucketKey(r) == <<r.strand, r.orient>>

\* lines 54-61 for one key and one reference: the tree
\* cluster_trees[key][rname] after the insert loop
RECURSIVE BuildTree(_, _, _, _, _)
BuildTree(t, rs, key, rn, i) ==
    IF i > Len(rs) THEN t
    ELSE BuildTree(IF BucketKey(rs[i]) = key /\ rs[i].rname = rn
                   THEN InsertRead(t, rs[i], i) ELSE t,
                   rs, key, rn, i + 1)

\* the references for which cluster_trees[key] holds a tree
RnamesOf(rs, key) ==
    {rs[i].rname : i \in {j \in 1..Len(rs) : BucketKey(rs[j]) = key}}

\* cluster_trees.iteritems() visits the four keys in the order of the dict's
\* hash table, which the source does not fix. A key whose defaultdict is
\* empty yields no cluster, so what shows is the order of the keys that hold
\* a tree: any order.
KeyOrders(rs) ==
    LET keys == {k \in Buckets : RnamesOf(rs, k) # {}}
    IN  {o \in [1..Cardinality(keys) -> keys] :
            \A a, b \in 1..Cardinality(keys) : o[a] = o[b] => a = b}

\* lines 66-67 for one key: (rname, start, end, indexes, strand, orientation)
\* of every region of every tree of the key
RECURSIVE KeyRegions(_, _, _)
KeyRegions(rs, key, rns) ==
    IF rns = <<>> THEN <<>>
    ELSE LET regs == ClusterTreeGetRegions(
                        BuildTree(NewClusterTree, rs, key, Head(rns), 1))
         IN  [j \in 1..Len(regs) |->
                 [rname |-> Head(rns), start |-> regs[j][1],
                  end |-> regs[j][2], indexes |-> regs[j][3],
                  strand |-> key[1], orientation |-> key[2]]]
             \o KeyRegions(rs, key, Tail(rns))

\* lines 64-67: the regions in the order the loops visit them
RECURSIVE AllRegions(_, _)
AllRegions(rs, order) ==
    IF order = <<>> THEN <<>>
    ELSE KeyRegions(rs, Head(order), SortedSeq(RnamesOf(rs, Head(order))))
         \o AllRegions(rs, Tail(order))

\* a mutant of line 78: the counter is not incremented
AssignId_NoIncrement(n, j) == n

\* lines 68, 78: the id of the j-th cluster of a call entered with counter n
AssignId(n, j) == n + (j - 1)

\* a mutant of line 79: the counter is returned as it came
ReturnedCounter_Unchanged(n, k) == n

\* lines 78-79: the counter returned after k clusters
ReturnedCounter(n, k) == n + k

\* a mutant of lines 70-76: only the first read of a region is tagged
TaggedIndexes_First(indexes) == {indexes[1]}

\* lines 70-76: the reads that get the cluster's tag
TaggedIndexes(indexes) == {indexes[m] : m \in 1..Len(indexes)}

\* lines 68-77: the clusters appended, in order. `indexes` is the region's
\* label list, from which the code builds qnames; it is kept beside qnames.
ClustersOf(rs, n, order) ==
    LET regs == AllRegions(rs, order)
    IN  [j \in 1..Len(regs) |->
            [rname |-> regs[j].rname, start |-> regs[j].start,
             end |-> regs[j].end, cluster_id |-> AssignId(n, j),
             strand |-> regs[j].strand, orientation |-> regs[j].orientation,
             qnames |-> [m \in 1..Len(regs[j].indexes) |->
                            rs[regs[j].indexes[m]].qname],
             indexes |-> regs[j].indexes]]

\* lines 74-76: tagdict[DISCORDANT_CLUSTER_TAG] = cluster_id; a later
\* assignment to the same read replaces an earlier one
TagsOf(rs, cl) ==
    [i \in 1..Len(rs) |->
        LET hits == {j \in 1..Len(cl) : i \in TaggedIndexes(cl[j].indexes)}
        IN  IF hits = {} THEN NoTag
            ELSE cl[CHOOSE j \in hits : \A h \in hits : h <= j].cluster_id]

\* add_reads_to_clusters(reads, next_cluster_id), lines 48-79
add_reads_to_clusters(rs, n, order) ==
    LET cl == ClustersOf(rs, n, order)
    IN  [clusters |-> cl,
         next_cluster_id |-> ReturnedCounter(n, Len(cl)),
         tags |-> TagsOf(rs, cl)]

\* ----------------------------------------------- cluster_discordant_reads
ClusterIdle ==
    /\ cpc = "idle"
    /\ reads = <<>>
    /\ tags = <<>>
    /\ locus_clusters = <<>>
    /\ next_cluster_id = 0
    /\ outfh = <<>>

\* cpc = "main": cluster_discordant_reads is entered, lines 85-89 done.
\* cpc = "loop": the loop of lines 90-98 with the loci delivered to it.
ClusterInit ==
    /\ cpc \in {"main", "loop"}
    /\ reads = <<>>
    /\ tags = <<>>
    /\ locus_clusters = <<>>
    /\ next_cluster_id = 0
    /\ outfh = <<>>

\* line 90 as written: cluster_loci(iter(bamfh)). No line binds the name
\* bamfh (the files are discordant_bamfh and concordant_bamfh): NameError.
MainIterBamfh ==
    /\ cpc = "main"
    /\ cpc' = "NameError"
    /\ UNCHANGED <<reads, tags, locus_clusters, next_cluster_id, outfh,
                   notCluster>>

\* lines 90-91: the next locus is taken and add_reads_to_clusters returns
ClusterLocus ==
    /\ cpc = "loop"
    /\ next_cluster_id < MaxClusterId
    /\ \E rs \in ReadLists : \E order \in KeyOrders(rs) :
          LET res == add_reads_to_clusters(rs, next_cluster_id, order)
          IN  /\ reads' = rs
              /\ tags' = res.tags
              /\ locus_clusters' = res.clusters
              /\ next_cluster_id' = res.next_cluster_id
    /\ cpc' = "write"
    /\ UNCHANGED <<outfh, notCluster>>

\* lines 92-98: the locus' cluster rows are printed and its reads, tagged,
\* are written to outbamfh (write-only, not kept here); locus_reads and
\* locus_clusters are not read again before they are rebound
WriteLocus ==
    /\ cpc = "write"
    /\ outfh' = outfh \o [j \in 1..Len(locus_clusters) |->
                              locus_clusters[j].cluster_id]
    /\ reads' = <<>>
    /\ tags' = <<>>
    /\ locus_clusters' = <<>>
    /\ cpc' = "loop"
    /\ UNCHANGED <<next_cluster_id, notCluster>>

\* lines 99-102: the loci are exhausted; the files are closed
LoopEnd ==
    /\ cpc = "loop"
    /\ cpc' = "done"
    /\ UNCHANGED <<reads, tags, locus_clusters, next_cluster_id, outfh,
                   notCluster>>

ClusterNext == MainIterBamfh \/ ClusterLocus \/ WriteLocus \/ LoopEnd

\* ------------------------------------------------------ filter predicates
\* A Chimera is held by the values its accessors return:
\*   name, partner5p.tx_name/.end/.inner_dist, partner3p.tx_name/.start/
\*   .inner_dist, get_weighted_unique_frags() and get_weighted_cov() (both in
\*   tenths), get_num_unique_spanning_positions(), get_num_frags()

\* --unique-frags, default 3.0, in tenths
UniqueFragsTenths == 30

\* a mutant of line 46: the comparison reversed
filter_weighted_frags_Reversed(c, threshold) == c.wfrags <= threshold

\* filter_weighted_frags(c, threshold), line 46
filter_weighted_frags(c, threshold) == c.wfrags >= threshold

\* a mutant of lines 56-59: the sum of the two distances is compared
\* (the lines 61-62 the source has commented out)
filter_inner_dist_Sum(c, m) ==
    IF m <= 0 THEN TRUE
    ELSE c.inner5p + c.inner3p <= m

\* filter_inner_dist(c, max_isize), lines 54-60
filter_inner_dist(c, m) ==
    IF m <= 0 THEN TRUE
    ELSE IF c.inner5p > m THEN FALSE
    ELSE IF c.inner3p > m THEN FALSE
    ELSE TRUE

InnerDistInit ==
    /\ fid_c \in [inner5p : (-1)..MaxInnerDist, inner3p : (-1)..MaxInnerDist]
    /\ fid_max_isize \in (-1)..MaxInnerDist
    /\ fid_result = <<>>

InnerDistIdle ==
    /\ fid_c = [inner5p |-> 0, inner3p |-> 0]
    /\ fid_max_isize = 0
    /\ fid_result = <<>>

\* one call of filter_inner_dist; fid_result holds what it returned
CallFilterInnerDist ==
    /\ fid_result = <<>>
    /\ fid_result' = <<filter_inner_dist(fid_c, fid_max_isize)>>
    /\ UNCHANGED <<fid_c, fid_max_isize, notInnerDist>>

InnerDistNext == CallFilterInnerDist

\* ---------------------------------------------------------- the alignments
\* config.GENE_REF_PREFIX + tx_name (line 70)
GENE_REF_PREFIX == "GENE_REF_PREFIX"
GeneRef(tx) == <<GENE_REF_PREFIX, tx>>

\* bamfh.references and bamfh.lengths. txA and txA2 are isoforms of one gene;
\* txC is a reference of the bam file that the gene table does not hold; txX
\* is in neither.
References ==
    <<GeneRef("txA"), GeneRef("txA2"), GeneRef("txB"), GeneRef("txC")>>
Lengths == <<4, 4, 4, 4>>

Aln(tx, q, s, e) == [rname |-> GeneRef(tx), qname |-> q, pos |-> s, aend |-> e]

\* the bam files filter_chimeras is run on: no alignment; three fragments
\* on txA, one of two mates, one of two nested alignments
BamFiles ==
    { {},
      {Aln("txA", "f1", 0, 4),
       Aln("txA", "f2", 0, 2), Aln("txA", "f2", 2, 4),
       Aln("txA", "f3", 0, 4), Aln("txA", "f3", 1, 2)} }

\* the bam files filter_chimeric_isoform_fraction is tried on alone: every
\* set of alignments of two query names over four intervals of txA
IsoformBams ==
    SUBSET {Aln("txA", q, iv[1], iv[2]) :
                q \in {"f1", "f2"},
                iv \in {<<0, 2>>, <<2, 4>>, <<0, 4>>, <<1, 2>>}}

\* bamfh.fetch(rname, start, end): the alignments on rname that overlap
\* [start, end)
Fetch(b, rname, start, end) ==
    {r \in b : r.rname = rname /\ r.pos < end /\ r.aend > start}

\* sorted(intervals)[0] and sorted(intervals)[-1]: tuples compare by start,
\* then by end
LexLess(a, b) == a[1] < b[1] \/ (a[1] = b[1] /\ a[2] < b[2])
FirstSorted(ivs) == CHOOSE a \in ivs : \A b \in ivs : a = b \/ LexLess(a, b)
LastSorted(ivs) == CHOOSE a \in ivs : \A b \in ivs : a = b \/ LexLess(b, a)

\* lines 76-78: frag_dict[qname], the (pos, aend) of the fetched alignments
frag_dict(b, rname, start, end, q) ==
    {<<r.pos, r.aend>> :
        r \in {x \in Fetch(b, rname, start, end) : x.qname = q}}

\* lines 80-84: the names of the fragments counted as wild-type
WildtypeFrags(c, b, rname, start, end) ==
    {q \in {r.qname : r \in Fetch(b, rname, start, end)} :
        /\ FirstSorted(frag_dict(b, rname, start, end, q))[1] < c.end5p
        /\ c.end5p < LastSorted(frag_dict(b, rname, start, end, q))[2]}

\* a mutant of line 87: the denominator is not raised to 1
ratio_ge_frac_NoMax(num_chimeric_frags, num_wildtype_frags, frac) ==
    num_chimeric_frags * 10 >= frac * num_wildtype_frags

\* lines 87-88: float(num_chimeric_frags) / max(num_wildtype_frags, 1) >= frac
\* with frac in tenths
ratio_ge_frac(num_chimeric_frags, num_wildtype_frags, frac) ==
    num_chimeric_frags * 10 >= frac * Max(num_wildtype_frags, 1)

\* filter_chimeric_isoform_fraction(c, frac, median_isize, bamfh), lines
\* 70-88. raised: references.index(rname) raised ValueError.
filter_chimeric_isoform_fraction(c, frac, median_isize, b) ==
    LET rname == GeneRef(c.tx5p)
    IN  IF \A t \in 1..Len(References) : References[t] # rname
        THEN [raised |-> TRUE, value |-> FALSE, wildtype_frags |-> {}]
        ELSE LET tid == CHOOSE t \in 1..Len(References) : References[t] = rname
                 rlen == Lengths[tid]
                 start == Max(0, c.end5p - median_isize)
                 end == Min(rlen, c.end5p + median_isize)
                 wildtype_frags == WildtypeFrags(c, b, rname, start, end)
                 num_wildtype_frags == Cardinality(wildtype_frags)
                 num_chimeric_frags == c.nfrags
             IN  [raised |-> FALSE,
                  value |-> ratio_ge_frac(num_chimeric_frags,
                                          num_wildtype_frags, frac),
                  wildtype_frags |-> wildtype_frags]

\* ------------------------------------------------------ the candidate table
\* Chimera.to_list() and Chimera.parse(): a row holds the fields in a fixed
\* column order
to_list(c) ==
    <<c.name, c.tx5p, c.end5p, c.inner5p, c.tx3p, c.start3p, c.inner3p,
      c.wfrags, c.wcov, c.nspan, c.nfrags>>

ParseRow(row) ==
    [name |-> row[1], tx5p |-> row[2], end5p |-> row[3], inner5p |-> row[4],
     tx3p |-> row[5], start3p |-> row[6], inner3p |-> row[7],
     wfrags |-> row[8], wcov |-> row[9], nspan |-> row[10],
     nfrags |-> row[11]]

\* the candidates a row of input_file can hold; the row is named nm.
\* RegularChimeras: both transcripts known, the breakpoint inside txA or txA2
RegularChimeras(nm) ==
    [name : {nm}, tx5p : {"txA", "txA2"}, end5p : {1, 2}, inner5p : {1, 2},
     tx3p : {"txB"}, start3p : {0}, inner3p : {1},
     wfrags : {29, 30}, wcov : {10}, nspan : {3, 5}, nfrags : {1, 2}]

\* IrregularChimeras: a 5' transcript the gene table (txC) or the bam file
\* and the gene table (txX) do not know, or a breakpoint past the end of txA
IrregularChimeras(nm) ==
    [name : {nm}, tx5p : {"txC", "txX"}, end5p : {1}, inner5p : {1},
     tx3p : {"txB"}, start3p : {0}, inner3p : {1},
     wfrags : {29, 30}, wcov : {10}, nspan : {5}, nfrags : {2}]
    \cup
    [name : {nm}, tx5p : {"txA"}, end5p : {6}, inner5p : {1},
     tx3p : {"txB"}, start3p : {0}, inner3p : {1},
     wfrags : {29, 30}, wcov : {10}, nspan : {5}, nfrags : {2}]

Chimeras(nm) == RegularChimeras(nm) \cup IrregularChimeras(nm)

\* ------------------------------------------- get_highest_coverage_isoforms
\* build_tx_cluster_map(gene_file): transcript -> cluster of overlapping genes
tx_cluster_map ==
    [tx \in {"txA", "txA2", "txB"} |-> IF tx = "txB" THEN 1 ELSE 0]

\* build_gene_to_genome_map(gene_file): each transcript here is one exon of
\* TxExonicLength bases on the forward strand; txA and txA2 start together
TxGenomeStart ==
    [tx \in {"txA", "txA2", "txB"} |-> IF tx = "txB" THEN 20 ELSE 10]
TxExonicLength == [tx \in {"txA", "txA2", "txB"} |-> 4]

\* gene_to_genome_pos(tx_name, pos, tx_genome_map) and the offsets it fails on
gene_to_genome_pos(tx, pos) == <<tx_cluster_map[tx], "+", TxGenomeStart[tx] + pos>>
CoordinateOutOfRange(tx, pos) == pos > TxExonicLength[tx]

\* a mutant of line 110: the key holds the clusters only
GroupKey_ClustersOnly(c) == <<tx_cluster_map[c.tx5p], tx_cluster_map[c.tx3p]>>

\* lines 104-110: the key a candidate is grouped under
GroupKey(c) ==
    <<tx_cluster_map[c.tx5p], tx_cluster_map[c.tx3p],
      gene_to_genome_pos(c.tx5p, c.end5p - 1),
      gene_to_genome_pos(c.tx3p, c.start3p)>>

\* lines 104-108 for one candidate: what the lookups raise, if anything
GroupKeyError(c) ==
    IF c.tx5p \notin DOMAIN tx_cluster_map THEN "KeyError"
    ELSE IF c.tx3p \notin DOMAIN tx_cluster_map THEN "KeyError"
    ELSE IF CoordinateOutOfRange(c.tx5p, c.end5p - 1)
         THEN "CoordinateOutOfRangeError"
    ELSE IF CoordinateOutOfRange(c.tx3p, c.start3p)
         THEN "CoordinateOutOfRangeError"
    ELSE "none"

\* lines 99-102: key
StatsKey(c) == <<c.name, c.nspan, c.wcov, c.nfrags>>

\* a mutant of line 118: the whole key, the name with it
RankKey_WithName(stats_info) == stats_info

\* line 118: stats_info[1:]
RankKey(stats_info) == Tail(stats_info)

\* a mutant of line 120: the keys are ordered by their first component only
TupleLeq_FirstOnly(a, b) == a[1] <= b[1]

\* tuple comparison, as sorted(..., reverse=True) makes it
TupleLeq(a, b) ==
    \/ a[1] < b[1]
    \/ (a[1] = b[1] /\ a[2] < b[2])
    \/ (a[1] = b[1] /\ a[2] = b[2] /\ a[3] <= b[3])

\* lines 97-110: cluster_chimera_dict[g], the keys filed under group g in
\* the order of the rows
cluster_chimera_dict(cs, g) ==
    LET members == SelectSeq(cs, LAMBDA c : GroupKey(c) = g)
    IN  [i \in 1..Len(members) |-> StatsKey(members[i])]

\* lines 115-118: stats_dict of one group
stats_dict(stats_list) ==
    [k \in {RankKey(stats_list[i]) : i \in 1..Len(stats_list)} |->
        {stats_list[i][1] :
            i \in {j \in 1..Len(stats_list) : RankKey(stats_list[j]) = k}}]

\* a mutant of lines 120-121: names tied for the highest key are all dropped
HighestScoring_Unique(sd) ==
    LET top == sd[CHOOSE k \in DOMAIN sd : \A k2 \in DOMAIN sd : TupleLeq(k2, k)]
    IN  IF Cardinality(top) = 1 THEN top ELSE {}

\* lines 120-121: stats_dict[sorted_keys[0]]
HighestScoring(sd) ==
    sd[CHOOSE k \in DOMAIN sd : \A k2 \in DOMAIN sd : TupleLeq(k2, k)]

\* get_highest_coverage_isoforms(input_file, gene_file), lines 97-122.
\* raised: what the first row that fails a lookup raised; kept: kept_chimeras
get_highest_coverage_isoforms(rows) ==
    LET cs == [i \in 1..Len(rows) |-> ParseRow(rows[i])]
        bad == {i \in 1..Len(rows) : GroupKeyError(cs[i]) # "none"}
    IN  IF bad # {}
        THEN [raised |->
                 GroupKeyError(cs[CHOOSE i \in bad : \A j \in bad : i <= j]),
              kept |-> {}]
        ELSE [raised |-> "none",
              kept |-> UNION {HighestScoring(stats_dict(
                                  cluster_chimera_dict(cs, g))) :
                              g \in {GroupKey(cs[i]) : i \in 1..Len(rows)}}]

\* ------------------------------------------------------------ filter_chimeras
\* lines 169-170: false_pos_key
false_pos_key(c) == <<c.tx5p, c.end5p, c.tx3p, c.start3p>>

\* a mutant of line 171: a candidate is taken for a false positive when its
\* transcript pair is that of a listed one
not_in_false_pos_pairs_TxOnly(key, pairs) ==
    \A p \in pairs : ~(p[1] = key[1] /\ p[3] = key[3])

\* line 171: false_pos_key not in false_pos_pairs
not_in_false_pos_pairs(key, pairs) == key \notin pairs

\* lines 163-175 for one candidate: "pass", "fail", or "ValueError" when
\* filter_chimeric_isoform_fraction raised
FilterChain(c) ==
    IF ~filter_weighted_frags(c, UniqueFragsTenths) THEN "fail"
    ELSE IF ~filter_inner_dist(c, max_isize) THEN "fail"
    ELSE IF ~not_in_false_pos_pairs(false_pos_key(c), false_pos_pairs)
         THEN "fail"
    ELSE LET r == filter_chimeric_isoform_fraction(
                      c, isoform_fraction, MedianIsize, bam)
         IN  IF r.raised THEN "ValueError"
             ELSE IF r.value THEN "pass" ELSE "fail"

\* read_false_pos_file(false_pos_file), lines 124-132: the sets of tuples
\* the run is given: none, or one that lists the candidates of txA at
\* breakpoint 1 and, for those at breakpoint 2, tuples that differ from theirs
\* in the 3' breakpoint or in a transcript
FalsePosFiles ==
    { {},
      {<<"txA", 1, "txB", 0>>,
       <<"txA", 2, "txB", 1>>, <<"txA", 2, "txA", 0>>, <<"txB", 2, "txB", 0>>} }

FilterIdle ==
    /\ fpc = "idle"
    /\ max_isize = 0
    /\ isoform_fraction = 0
    /\ false_pos_pairs = {}
    /\ bam = {}
    /\ num_chimeras = 0
    /\ fc_c = <<>>
    /\ tmp_file = [exists |-> FALSE, rows |-> <<>>]
    /\ kept_chimeras = {}
    /\ output_file = <<>>

\* lines 141-160: the parameters are read, bam_file and tmp_file are opened
FilterInit ==
    /\ fpc = "filter"
    /\ max_isize \in {0, 1}
    /\ isoform_fraction \in {1, 10}
    /\ false_pos_pairs \in FalsePosFiles
    /\ bam \in BamFiles
    /\ num_chimeras = 0
    /\ fc_c = <<>>
    /\ tmp_file = [exists |-> TRUE, rows |-> <<>>]
    /\ kept_chimeras = {}
    /\ output_file = <<>>

\* lines 161-177: one row of input_file; fc_c holds c, the candidate of the row
FilterRow ==
    /\ fpc = "filter"
    /\ num_chimeras < MaxChimeras
    /\ \E row \in Chimeras(num_chimeras + 1) :
          LET verdict == FilterChain(row)
          IN  /\ fc_c' = <<row>>
              /\ fpc' = IF verdict = "ValueError" THEN "ValueError" ELSE fpc
              /\ tmp_file' = IF verdict = "pass"
                             THEN [tmp_file EXCEPT
                                      !.rows = Append(@, to_list(row))]
                             ELSE tmp_file
    /\ num_chimeras' = num_chimeras + 1
    /\ UNCHANGED <<max_isize, isoform_fraction, false_pos_pairs, bam,
                   kept_chimeras, output_file, notFilter>>

\* lines 178-186: input_file is exhausted; the best isoforms are chosen, or
\* get_highest_coverage_isoforms raises and the run ends there. c is not
\* read again before line 189 binds it anew.
FilterSelect ==
    /\ fpc = "filter"
    /\ LET r == get_highest_coverage_isoforms(tmp_file.rows)
       IN  /\ kept_chimeras' = r.kept
           /\ fpc' = IF r.raised = "none" THEN "select" ELSE r.raised
    /\ fc_c' = <<>>
    /\ UNCHANGED <<max_isize, isoform_fraction, false_pos_pairs, bam,
                   num_chimeras, tmp_file, output_file, notFilter>>

\* a mutant of lines 189-192: the kept rows are written last row first
CopyKept_Reversed(rows, kept) ==
    LET sel == SelectSeq(rows, LAMBDA row : ParseRow(row).name \in kept)
    IN  [i \in 1..Len(sel) |-> sel[Len(sel) + 1 - i]]

\* lines 189-192: the rows of tmp_file whose name is kept, in file order
CopyKept(rows, kept) ==
    SelectSeq(rows, LAMBDA row : ParseRow(row).name \in kept)

\* lines 187-197: the kept rows of tmp_file are copied to output_file and
\* tmp_file is removed
FilterWrite ==
    /\ fpc = "select"
    /\ output_file' = CopyKept(tmp_file.rows, kept_chimeras)
    /\ tmp_file' = [exists |-> FALSE, rows |-> <<>>]
    /\ fpc' = "done"
    /\ UNCHANGED <<max_isize, isoform_fraction, false_pos_pairs, bam,
                   num_chimeras, fc_c, kept_chimeras, notFilter>>

FilterNext == FilterRow \/ FilterSelect \/ FilterWrite

\* ------------------------------ filter_chimeric_isoform_fraction, on its own
IsoformIdle ==
    /\ icf_c = [tx5p |-> "txA", end5p |-> 1, nfrags |-> 0]
    /\ icf_frac = 0
    /\ icf_median_isize = 0
    /\ icf_bam = {}
    /\ icf_result = <<>>

IsoformInit ==
    /\ icf_c \in [tx5p : {"txA", "txX"}, end5p : {1, 2, 3}, nfrags : {0, 1, 2}]
    /\ icf_frac \in {1, 10}
    /\ icf_median_isize \in {1, MedianIsize}
    /\ icf_bam \in IsoformBams
    /\ icf_result = <<>>

\* one call of filter_chimeric_isoform_fraction; icf_result holds what it
\* returned or raised, and the wildtype_frags it had counted
CallFilterIsoformFraction ==
    /\ icf_result = <<>>
    /\ icf_result' = <<filter_chimeric_isoform_fraction(
                           icf_c, icf_frac, icf_median_isize, icf_bam)>>
    /\ UNCHANGED <<icf_c, icf_frac, icf_median_isize, icf_bam, notIsoform>>

IsoformNext == CallFilterIsoformFraction

\* ------------------------------ run_chimerascan: the spanning-evidence merge
\* lines 141-146: the values --anchor-min, --anchor-max and
\* --anchor-mismatches can be given; the defaults are 0, 5 and 0
AnchorOptions ==
    [anchor_min : 0..MaxAnchor, anchor_max : 0..(MaxAnchor + 1),
     anchor_mismatches : {0, 1}]

\* a realigned read across a junction: the bases it has on each side of the
\* junction and the mismatches within each of the two anchors
SpanningReads ==
    [left : 1..MaxAnchor, right : 1..MaxAnchor, mm_left : {0, 1},
     mm_right : {0, 1}]

\* lines 409-411: anchor_min=0, anchor_max=0, anchor_mismatches=0
PassedAnchorArgs(opts) ==
    [anchor_min |-> 0, anchor_max |-> 0, anchor_mismatches |-> 0]

\* merge_spanning_alignments: whether a read supports its candidate under
\* the arguments it was called with
SupportsCandidate(r, a) ==
    /\ r.left >= a.anchor_min
    /\ r.right >= a.anchor_min
    /\ r.left < a.anchor_max => r.mm_left <= a.anchor_mismatches
    /\ r.right < a.anchor_max => r.mm_right <= a.anchor_mismatches

MergeIdle ==
    /\ mpc = "idle"
    /\ options = [anchor_min |-> 0, anchor_max |-> 5, anchor_mismatches |-> 0]
    /\ anchor_args = <<>>
    /\ span_read = <<>>
    /\ num_span_reads = 0
    /\ num_spanning = 0

\* line 147: the options are parsed
MergeInit ==
    /\ mpc = "main"
    /\ options \in AnchorOptions
    /\ anchor_args = <<>>
    /\ span_read = <<>>
    /\ num_span_reads = 0
    /\ num_spanning = 0

\* lines 406-411: merge_spanning_alignments is called
CallMergeSpanningAlignments ==
    /\ mpc = "main"
    /\ anchor_args' = <<PassedAnchorArgs(options)>>
    /\ mpc' = "merge"
    /\ UNCHANGED <<options, span_read, num_span_reads, num_spanning, notMerge>>

\* merge_spanning_alignments takes one realigned read: it is attached to its
\* candidate, whose spanning count grows, or discarded
MergeSpanningRead ==
    /\ mpc = "merge"
    /\ num_span_reads < MaxSpanReads
    /\ \E r \in SpanningReads :
          /\ span_read' = <<r>>
          /\ num_spanning' = IF SupportsCandidate(r, anchor_args[1])
                             THEN num_spanning + 1 ELSE num_spanning
    /\ num_span_reads' = num_span_reads + 1
    /\ UNCHANGED <<options, anchor_args, mpc, notMerge>>

MergeNext == CallMergeSpanningAlignments \/ MergeSpanningRead

\* ------------------------------------------ InsertSizeDistribution.from_bam
MaxPairs == 3       \* most read pairs in the file given to from_bam
MaxSamples == 1     \* largest max_samples given to from_bam

\* max_samples=None
NoLimit == -1

Alignment(r, p, e) == [rname |-> r, pos |-> p, aend |-> e]

\* what parse_pe_reads yields for one read pair: (alignments of read 1,
\* alignments of read 2). One pair with an unaligned read, one with a
\* multimapping read, one discordant, and pairs of insert size 2, 3 and 4.
PeReads ==
    { << <<>>, <<Alignment(0, 0, 1)>> >>,
      << <<Alignment(0, 0, 1), Alignment(1, 0, 1)>>, <<Alignment(0, 1, 2)>> >>,
      << <<Alignment(0, 0, 1)>>, <<Alignment(1, 1, 2)>> >>,
      << <<Alignment(0, 0, 1)>>, <<Alignment(0, 1, 2)>> >>,
      << <<Alignment(0, 1, 3)>>, <<Alignment(0, 0, 1)>> >>,
      << <<Alignment(0, 0, 1)>>, <<Alignment(0, 3, 4)>> >> }

PairFiles == UNION {[1..n -> PeReads] : n \in 0..MaxPairs}

\* get_insert_size(r1, r2): from the leftmost start to the end of the other
\* read
get_insert_size(r1, r2) ==
    IF r1.pos > r2.pos THEN r1.aend - r2.pos ELSE r2.aend - r1.pos

\* lines 130-147: both reads have exactly one alignment, on one reference
UniqueConcordant(pe_reads) ==
    /\ Len(pe_reads[1]) = 1
    /\ Len(pe_reads[2]) = 1
    /\ pe_reads[1][1].rname = pe_reads[2][1].rname

\* line 127: the sample limit stops the loop
StopsAt(count, max_samples) ==
    max_samples # NoLimit /\ count > max_samples

IsizeIdle ==
    /\ fb_pc = "idle"
    /\ fb_bamfh = <<>>
    /\ fb_idx = 0
    /\ fb_min_isize = 0
    /\ fb_max_isize = 0
    /\ fb_max_samples = NoLimit
    /\ fb_arr = <<>>
    /\ fb_count = 0

\* lines 104-116: res is made with an all-zero histogram over
\* min_isize..max_isize; arr[i] is kept at place i of fb_arr, i from 0
IsizeInit ==
    /\ fb_pc = "loop"
    /\ fb_bamfh \in PairFiles
    /\ fb_idx = 0
    /\ fb_min_isize \in {0, 2}
    /\ fb_max_isize = 3
    /\ fb_max_samples \in {NoLimit} \cup (0..MaxSamples)
    /\ fb_arr = [i \in 0..(fb_max_isize - fb_min_isize) |-> 0]
    /\ fb_count = 0

\* lines 117-155: one turn of the loop over the read pairs. The counters
\* unmapped, multimapping, discordant and outside_range are only logged.
FromBamTake ==
    /\ fb_pc = "loop"
    /\ fb_idx < Len(fb_bamfh)
    /\ fb_idx' = fb_idx + 1
    /\ LET pe_reads == fb_bamfh[fb_idx + 1]
       IN  IF StopsAt(fb_count, fb_max_samples)
           THEN /\ fb_pc' = "done"
                /\ UNCHANGED <<fb_arr, fb_count>>
           ELSE /\ fb_pc' = fb_pc
                /\ IF UniqueConcordant(pe_reads)
                   THEN LET isize == get_insert_size(pe_reads[1][1],
                                                     pe_reads[2][1])
                        IN  IF fb_min_isize <= isize /\ isize <= fb_max_isize
                            THEN /\ fb_arr' = [fb_arr EXCEPT
                                                 ![isize - fb_min_isize] = @ + 1]
                                 /\ fb_count' = fb_count + 1
                            ELSE UNCHANGED <<fb_arr, fb_count>>
                   ELSE UNCHANGED <<fb_arr, fb_count>>
    /\ UNCHANGED <<fb_bamfh, fb_min_isize, fb_max_isize, fb_max_samples,
                   notIsize>>

\* line 156: the file is exhausted and res is returned
FromBamReturn ==
    /\ fb_pc = "loop"
    /\ fb_idx = Len(fb_bamfh)
    /\ fb_pc' = "done"
    /\ UNCHANGED <<fb_bamfh, fb_idx, fb_min_isize, fb_max_isize,
                   fb_max_samples, fb_arr, fb_count, notIsize>>

IsizeNext == FromBamTake \/ FromBamReturn

\* ------------------------------------------------------- merge_read_pairs
MaxFragments == 2   \* most fragments in the file given to merge_read_pairs

\* an alignment of one read as it comes from bamfh: not yet paired
Read(r, p, e, rev) ==
    [rname |-> r, pos |-> p, aend |-> e, is_reverse |-> rev,
     is_unmapped |-> FALSE, is_proper_pair |-> FALSE, mate |-> 0,
     mpos |-> -1, isize |-> 0, NH |-> NoTag]

UnmappedRead == [Read(-1, -1, -1, FALSE) EXCEPT !.is_unmapped = TRUE]

\* one partition holding one unsplit read with the given alignments
Hits(alns) == << <<alns>> >>

\* what parse_segmented_pe_sam_file yields for a fragment: per mate the
\* partitions, per partition the splits, per split the alignments
Fragments ==
    { <<Hits(<<Read(0, 0, 1, FALSE)>>), Hits(<<Read(0, 2, 3, TRUE)>>)>>,
      <<Hits(<<Read(0, 0, 1, FALSE), Read(0, 1, 2, FALSE)>>),
        Hits(<<Read(0, 2, 3, TRUE)>>)>>,
      <<Hits(<<Read(0, 0, 1, FALSE), Read(1, 0, 1, FALSE)>>),
        Hits(<<Read(0, 2, 3, TRUE), Read(1, 2, 3, TRUE)>>)>>,
      <<Hits(<<Read(0, 0, 1, FALSE), Read(0, 1, 2, FALSE),
               Read(1, 0, 1, FALSE)>>),
        Hits(<<Read(0, 2, 3, TRUE), Read(1, 2, 3, TRUE)>>)>>,
      <<Hits(<<Read(0, 0, 1, FALSE)>>), Hits(<<Read(1, 2, 3, TRUE)>>)>>,
      <<Hits(<<Read(0, 0, 1, FALSE)>>), Hits(<<Read(0, 5, 6, TRUE)>>)>>,
      <<Hits(<<Read(0, 0, 1, FALSE)>>), Hits(<<Read(0, 2, 3, FALSE)>>)>>,
      <<Hits(<<UnmappedRead>>), Hits(<<Read(0, 2, 3, TRUE)>>)>>,
      << << <<<<Read(0, 0, 1, FALSE)>>>>, <<<<Read(0, 1, 2, FALSE)>>>> >>,
         Hits(<<Read(0, 2, 3, TRUE)>>)>> }

\* lines 35-55: the alignments of a mate that enter ref_dict
UsableReads(mate_hits) ==
    IF Len(mate_hits) > 1 THEN <<>>
    ELSE IF Len(mate_hits[1]) > 1 THEN <<>>
    ELSE SelectSeq(mate_hits[1][1], LAMBDA r : ~r.is_unmapped)

\* map_reads_to_references(pe_reads): reference -> (alignments of mate 1,
\* alignments of mate 2)
map_reads_to_references(pe) ==
    LET usable == [m \in 1..2 |-> UsableReads(pe[m])]
        keys == UNION {{usable[m][i].rname : i \in 1..Len(usable[m])} :
                          m \in 1..2}
    IN  [rname \in keys |->
            [m \in 1..2 |-> SelectSeq(usable[m],
                                      LAMBDA r : r.rname = rname)]]

\* lines 72-75 and 116-119
InsertSize(r1, r2) ==
    IF r1.pos > r2.pos THEN r1.aend - r2.pos ELSE r2.aend - r1.pos

\* lines 69-82: the concordant pairs of one reference, r1 in the outer loop
ConcordantOn(mate_pairs, min_len, max_len, lt) ==
    LET n1 == Len(mate_pairs[1])
        n2 == Len(mate_pairs[2])
        all == [k \in 1..(n1 * n2) |->
                   <<mate_pairs[1][((k - 1) \div n2) + 1],
                     mate_pairs[2][((k - 1) % n2) + 1]>>]
        same_strand == (lt[1] = lt[2])
    IN  SelectSeq(all, LAMBDA p :
            /\ InsertSize(p[1], p[2]) >= min_len
            /\ InsertSize(p[1], p[2]) <= max_len
            /\ same_strand = (p[1].is_reverse = p[2].is_reverse))

\* the orders in which ref_dict.iteritems() may yield the references
RefOrders(ref_dict) ==
    LET keys == DOMAIN ref_dict
    IN  {s \in [1..Cardinality(keys) -> keys] :
            \A i, j \in 1..Cardinality(keys) : i # j => s[i] # s[j]}

\* find_concordant_pairs(ref_dict, min_isize, max_isize, library_type), the
\* references taken in the given order
find_concordant_pairs(ref_dict, min_len, max_len, lt, order) ==
    LET RECURSIVE From(_)
        From(i) ==
            IF i > Len(order) THEN <<>>
            ELSE ConcordantOn(ref_dict[order[i]], min_len, max_len, lt)
                     \o From(i + 1)
    IN  From(1)

\* a mutant of line 149: every pair is tagged as the only one
NHTag_One(concordant_pairs) == 1

\* line 149: the NH tag given to every pair of the fragment
NHTag(concordant_pairs) == Len(concordant_pairs)

\* pair_reads(r1, r2, keep_tags, add_tags), lines 99-131, as the two
\* records that are written
pair_reads(r1, r2, nh) ==
    LET isize == InsertSize(r1, r2)
    IN  <<[r1 EXCEPT !.is_proper_pair = TRUE, !.mate = 1, !.mpos = r2.pos,
                     !.isize = isize, !.NH = nh],
          [r2 EXCEPT !.is_proper_pair = TRUE, !.mate = 2, !.mpos = r1.pos,
                     !.isize = isize, !.NH = nh]>>

\* lines 146-151: the records written for the concordant pairs
WritePairs(concordant_pairs) ==
    LET RECURSIVE From(_)
        From(i) ==
            IF i > Len(concordant_pairs) THEN <<>>
            ELSE pair_reads(concordant_pairs[i][1], concordant_pairs[i][2],
                            NHTag(concordant_pairs)) \o From(i + 1)
    IN  From(1)

\* lines 156-160: every alignment of the fragment, as it was read
WriteUnpaired(pe) ==
    LET RECURSIVE Flat(_, _)
        Flat(s, depth) ==
            IF depth = 0 THEN <<s>>
            ELSE IF s = <<>> THEN <<>>
            ELSE Flat(Head(s), depth - 1) \o Flat(Tail(s), depth)
    IN  Flat(pe, 4)

\* (min_isize, max_isize) of the run
FragmentLengthRange == <<1, 4>>

PairsIdle ==
    /\ mrp_pc = "idle"
    /\ mrp_library_type = <<0, 0>>
    /\ mrp_pe_reads = <<>>
    /\ output_bamfh = <<>>
    /\ num_paired = 0
    /\ num_unpaired = 0
    /\ num_fragments = 0

\* lines 134-140; library_type is "fr" or "ff" as parse_library_type
\* gives it
PairsInit ==
    /\ mrp_pc = "loop"
    /\ mrp_library_type \in {<<0, 1>>, <<0, 0>>}
    /\ mrp_pe_reads = <<>>
    /\ output_bamfh = <<>>
    /\ num_paired = 0
    /\ num_unpaired = 0
    /\ num_fragments = 0

\* lines 141-162: one fragment of bamfh. Every record written for it carries
\* the fragment's place in the file as its qname.
MergeFragment ==
    /\ mrp_pc = "loop"
    /\ num_fragments < MaxFragments
    /\ \E pe \in Fragments :
          LET ref_dict == map_reads_to_references(pe)
          IN  \E order \in RefOrders(ref_dict) :
                LET concordant_pairs ==
                        find_concordant_pairs(ref_dict,
                            FragmentLengthRange[1], FragmentLengthRange[2],
                            mrp_library_type, order)
                    written == IF Len(concordant_pairs) > 0
                               THEN WritePairs(concordant_pairs)
                               ELSE WriteUnpaired(pe)
                IN  /\ mrp_pe_reads' = <<pe>>
                    /\ output_bamfh' = output_bamfh \o
                          [i \in 1..Len(written) |->
                              [qname |-> num_fragments + 1,
                               rec |-> written[i]]]
                    /\ num_paired' = IF Len(concordant_pairs) > 0
                                     THEN num_paired + 1 ELSE num_paired
                    /\ num_unpaired' = IF Len(concordant_pairs) > 0
                                       THEN num_unpaired
                                       ELSE num_unpaired + 1
    /\ num_fragments' = num_fragments + 1
    /\ UNCHANGED <<mrp_pc, mrp_library_type, notPairs>>

\* lines 170-172: bamfh is exhausted
MergeReturn ==
    /\ mrp_pc = "loop"
    /\ mrp_pc' = "done"
    /\ UNCHANGED <<mrp_library_type, mrp_pe_reads, output_bamfh, num_paired,
                   num_unpaired, num_fragments, notPairs>>

PairsNext == MergeFragment \/ MergeReturn

\* ------------------------------------------- the candidate table as text
MaxRows == 2        \* most rows of a table that is written and read again

\* significant digits str() gives a float
StrDigits == 12

\* a float, by the decimal digits repr() shows of it: ip the integer part
\* (one digit), fd the digits after the point, without trailing zeros
Float(ip, fd) == [ip |-> ip, fd |-> fd]

Repeat(d, n) == [i \in 1..n |-> d]

\* 2.9, 3.0, 0.05, and the sums of weights 1/3, 2/3 and 1/30
FloatValues ==
    { Float(2, <<9>>), Float(3, <<>>), Float(0, <<0, 5>>),
      Float(0, Repeat(3, 16)), Float(0, Repeat(6, 16)),
      Float(0, <<0>> \o Repeat(3, 16)) }

StripZeros(ds) ==
    LET RECURSIVE Strip(_)
        Strip(s) == IF s # <<>> /\ s[Len(s)] = 0
                    THEN Strip(SubSeq(s, 1, Len(s) - 1)) ELSE s
    IN  Strip(ds)

LeadingZeros(ds) ==
    LET RECURSIVE Lead(_)
        Lead(i) == IF i <= Len(ds) /\ ds[i] = 0 THEN 1 + Lead(i + 1) ELSE 0
    IN  Lead(1)

\* one added at the last digit of ip.fd, the carry taken leftwards
RoundUp(ip, fd) ==
    LET RECURSIVE Inc(_)
        Inc(s) == IF s = <<>> THEN [carry |-> 1, ds |-> <<>>]
                  ELSE IF s[Len(s)] < 9
                       THEN [carry |-> 0,
                             ds |-> [s EXCEPT ![Len(s)] = @ + 1]]
                       ELSE LET r == Inc(SubSeq(s, 1, Len(s) - 1))
                            IN  [carry |-> r.carry, ds |-> Append(r.ds, 0)]
        r == Inc(fd)
    IN  Float(ip + r.carry, r.ds)

\* str(x) of a float x: "%.12g", and ".0" where no digit follows the point
FloatStr(x) ==
    LET keep == IF x.ip > 0 THEN StrDigits - 1
                ELSE LeadingZeros(x.fd) + StrDigits
        cut == IF Len(x.fd) <= keep THEN x
               ELSE IF x.fd[keep + 1] >= 5
                    THEN RoundUp(x.ip, SubSeq(x.fd, 1, keep))
                    ELSE Float(x.ip, SubSeq(x.fd, 1, keep))
        shown == StripZeros(cut.fd)
    IN  Float(cut.ip, IF shown = <<>> THEN <<0>> ELSE shown)

\* float(text): the float whose digits the text gives
ParseFloat(text) == Float(text.ip, StripZeros(text.fd))

\* str(n) of an integer n >= 0, its decimal digits, and int(text)
IntStr(n) ==
    LET RECURSIVE Digits(_)
        Digits(k) == IF k < 10 THEN <<k>>
                     ELSE Append(Digits(k \div 10), k % 10)
    IN  Digits(n)

ParseInt(text) ==
    LET RECURSIVE Value(_)
        Value(i) == IF i = 0 THEN 0 ELSE 10 * Value(i - 1) + text[i]
    IN  Value(Len(text))

\* the columns of to_list() that hold names and those that hold floats
StringColumns == {2, 5}
FloatColumns == {8, 9}

\* lines 176 and 192: map(str, c.to_list())
StrRow(c) ==
    LET fields == to_list(c)
    IN  [i \in 1..Len(fields) |->
            IF i \in StringColumns THEN fields[i]
            ELSE IF i \in FloatColumns THEN FloatStr(fields[i])
            ELSE IntStr(fields[i])]

\* Chimera.parse on one row of text
ParseText(row) ==
    ParseRow([i \in 1..Len(row) |->
                 IF i \in StringColumns THEN row[i]
                 ELSE IF i \in FloatColumns THEN ParseFloat(row[i])
                 ELSE ParseInt(row[i])])

\* the candidates a table can hold in row nm
TableChimeras(nm) ==
    [name : {nm}, tx5p : {"txA"}, end5p : {1, 12}, inner5p : {1},
     tx3p : {"txB"}, start3p : {0}, inner3p : {1},
     wfrags : {Float(2, <<9>>), Float(3, <<>>)}, wcov : FloatValues,
     nspan : {3}, nfrags : {2}]

Tables ==
    UNION { {t \in [1..n -> UNION {TableChimeras(nm) : nm \in 1..n}] :
                \A i \in 1..n : t[i].name = i} : n \in 1..MaxRows }

TableIdle ==
    /\ tbl_pc = "idle"
    /\ table = <<>>
    /\ table_text = <<>>
    /\ reparsed = <<>>

TableInit ==
    /\ tbl_pc = "write"
    /\ table \in Tables
    /\ table_text = <<>>
    /\ reparsed = <<>>

\* lines 176 and 192: every candidate is printed as a row
WriteTable ==
    /\ tbl_pc = "write"
    /\ table_text' = [i \in 1..Len(table) |-> StrRow(table[i])]
    /\ tbl_pc' = "read"
    /\ UNCHANGED <<table, reparsed, notTable>>

\* lines 98 and 189: Chimera.parse reads the rows back
ReadTable ==
    /\ tbl_pc = "read"
    /\ reparsed' = [i \in 1..Len(table_text) |-> ParseText(table_text[i])]
    /\ tbl_pc' = "done"
    /\ UNCHANGED <<table, table_text, notTable>>

TableNext == WriteTable \/ ReadTable

\* ---------------------------------------------------------- specifications
InitLoci ==
    /\ LociInit /\ TreeIdle /\ ClusterIdle /\ InnerDistIdle /\ FilterIdle
    /\ IsoformIdle /\ MergeIdle
    /\ IsizeIdle
    /\ PairsIdle
    /\ TableIdle
SpecLoci == InitLoci /\ [][LociNext]_vars

InitTree ==
    /\ TreeInit /\ LociIdle /\ ClusterIdle /\ InnerDistIdle /\ FilterIdle
    /\ IsoformIdle /\ MergeIdle
    /\ IsizeIdle
    /\ PairsIdle
    /\ TableIdle
SpecTree == InitTree /\ [][TreeNext]_vars

InitInnerDist ==
    /\ InnerDistInit /\ LociIdle /\ TreeIdle /\ ClusterIdle /\ FilterIdle
    /\ IsoformIdle /\ MergeIdle
    /\ IsizeIdle
    /\ PairsIdle
    /\ TableIdle
SpecInnerDist == InitInnerDist /\ [][InnerDistNext]_vars

InitFilter ==
    /\ FilterInit /\ LociIdle /\ TreeIdle /\ ClusterIdle /\ InnerDistIdle
    /\ IsoformIdle /\ MergeIdle
    /\ IsizeIdle
    /\ PairsIdle
    /\ TableIdle
SpecFilter == InitFilter /\ [][FilterNext]_vars

InitIsoform ==
    /\ IsoformInit /\ LociIdle /\ TreeIdle /\ ClusterIdle /\ InnerDistIdle
    /\ FilterIdle /\ MergeIdle
    /\ IsizeIdle
    /\ PairsIdle
    /\ TableIdle
SpecIsoform == InitIsoform /\ [][IsoformNext]_vars

InitMerge ==
    /\ MergeInit /\ LociIdle /\ TreeIdle /\ ClusterIdle /\ InnerDistIdle
    /\ FilterIdle /\ IsoformIdle
    /\ IsizeIdle
    /\ PairsIdle
    /\ TableIdle
SpecMerge == InitMerge /\ [][MergeNext]_vars

InitIsize ==
    /\ IsizeInit /\ LociIdle /\ TreeIdle /\ ClusterIdle /\ InnerDistIdle
    /\ FilterIdle /\ IsoformIdle /\ MergeIdle
    /\ PairsIdle
    /\ TableIdle
SpecIsize == InitIsize /\ [][IsizeNext]_vars

InitPairs ==
    /\ PairsInit /\ LociIdle /\ TreeIdle /\ ClusterIdle /\ InnerDistIdle
    /\ FilterIdle /\ IsoformIdle /\ MergeIdle /\ IsizeIdle
    /\ TableIdle
SpecPairs == InitPairs /\ [][PairsNext]_vars

InitTable ==
    /\ TableInit /\ LociIdle /\ TreeIdle /\ ClusterIdle /\ InnerDistIdle
    /\ FilterIdle /\ IsoformIdle /\ MergeIdle /\ IsizeIdle /\ PairsIdle
SpecTable == InitTable /\ [][TableNext]_vars

Init ==
    /\ ClusterInit /\ LociIdle /\ TreeIdle /\ InnerDistIdle /\ FilterIdle
    /\ IsoformIdle /\ MergeIdle
    /\ IsizeIdle
    /\ PairsIdle
    /\ TableIdle

Next == ClusterNext

Spec == Init /\ [][Next]_vars

LociTerminated == lpc \in {"done", "UnboundLocalError"}

\* ------------------------------------------------------- claims: cluster_loci
Identity(n) == [k \in 1..n |-> k]

\* C1: when cluster_loci has ended on a sorted stream, the concatenation of
\* the yielded loci is the input in input order (so every record is in exactly
\* one locus), and the example stream (chr1,0,10),(chr1,5,15),(chr1,50,60)
\* has yielded exactly {rec1,rec2} and {rec3}.
C1_LociPartitionInput ==
    (LociTerminated /\ IsSorted(bam_iter)) =>
        /\ Flatten(loci) = Identity(Len(bam_iter))
        /\ \A k \in 1..Len(bam_iter) :
              Cardinality({j \in 1..Len(loci) :
                  \E m \in 1..Len(loci[j]) : loci[j][m] = k}) = 1
        /\ (bam_iter = ExampleStream => loci = << <<1, 2>>, <<3>> >>)

C1_Witness ==
    /\ lpc = "done"
    /\ bam_iter = ExampleStream
    /\ loci = << <<1, 2>>, <<3>> >>

\* the record the loop is about to take, and what the loop then does with it
LoopTakes == lpc = "loop" /\ idx < Len(bam_iter)
Added(k) ==
    /\ window' = Append(window, k)
    /\ window_range' = <<bam_iter[k].rname,
                         Min(window_range[2], bam_iter[k].pos),
                         Max(window_range[3], bam_iter[k].aend)>>
    /\ loci' = loci
EmittedAndSeeded(k) ==
    /\ loci' = Append(loci, window)
    /\ window' = <<k>>
    /\ window_range' = RecInterval(bam_iter[k])

\* the half-open intervals [pos, aend) and [min-start, max-end) share a base
HalfOpenOverlap(r, wr) ==
    r.rname = wr[1] /\ r.pos < wr[3] /\ wr[2] < r.aend
\* they share a base or are adjacent
OverlapOrTouch(r, wr) ==
    r.rname = wr[1] /\ r.pos <= wr[3] /\ wr[2] <= r.aend

\* C2 (as claimed): a record is added to the window, the bounds being extended
\* to the min start / max end, iff it has the window's reference id and its
\* half-open interval overlaps the window's half-open bounds; otherwise the
\* window is emitted and a new one seeded with the record.
C2_AddedIffHalfOpenOverlap ==
    [][LoopTakes =>
        IF HalfOpenOverlap(bam_iter[idx + 1], window_range)
        THEN Added(idx + 1) ELSE EmittedAndSeeded(idx + 1)]_vars

\* C2 (amended): a record is added to the window, the bounds being extended to
\* the min start / max end, iff it has the window's reference id and its
\* interval overlaps or touches the window's bounds (pos <= max-end and
\* min-start <= aend); otherwise the window is emitted and a new one seeded
\* with the record.
C2_AddedIffOverlapOrTouch ==
    [][LoopTakes =>
        IF OverlapOrTouch(bam_iter[idx + 1], window_range)
        THEN Added(idx + 1) ELSE EmittedAndSeeded(idx + 1)]_vars

\* a record that only touches the window's end has been added to it
C2_Witness ==
    /\ lpc = "loop"
    /\ Len(window) = 2
    /\ bam_iter[window[2]].rname = bam_iter[window[1]].rname
    /\ bam_iter[window[2]].pos = bam_iter[window[1]].aend
    /\ loci # <<>>

\* the first record whose sort key is smaller than its predecessor's
Regresses(k) ==
    /\ k \in 2..Len(bam_iter)
    /\ \/ bam_iter[k].rname < bam_iter[k-1].rname
       \/ (bam_iter[k].rname = bam_iter[k-1].rname
           /\ bam_iter[k].pos < bam_iter[k-1].pos)

\* C3: once the iterator has delivered a record whose (reference id, start)
\* is smaller than its predecessor's, the run has stopped with
\* UnsortedInputError: it yields nothing from then on.
C3_UnsortedInputIsFatal ==
    \A k \in 2..Len(bam_iter) :
        (Regresses(k) /\ idx >= k) => lpc = "UnsortedInputError"

\* ---------------------------------------- claims: add_reads_to_clusters
\* every cluster id assigned so far in the run, in assignment order: the ids
\* of the rows printed, then those of the locus just clustered
AssignedIds ==
    outfh \o [j \in 1..Len(locus_clusters) |-> locus_clusters[j].cluster_id]

\* C4: over a run the cluster ids strictly increase in assignment order, so
\* none is assigned twice, across loci and across (strand, orientation) keys.
C4_ClusterIdsStrictlyIncrease ==
    \A a, b \in 1..Len(AssignedIds) :
        a < b => AssignedIds[a] < AssignedIds[b]

\* a second locus has been clustered, into clusters of two different keys
C4_Witness ==
    /\ cpc = "write"
    /\ Len(outfh) >= 1
    /\ Len(locus_clusters) = 2
    /\ <<locus_clusters[1].strand, locus_clusters[1].orientation>>
         # <<locus_clusters[2].strand, locus_clusters[2].orientation>>
    /\ locus_clusters[1].cluster_id > outfh[Len(outfh)]

\* the clusters whose region holds read k / whose name list holds its name
ClustersHolding(k) ==
    {j \in 1..Len(locus_clusters) :
        \E m \in 1..Len(locus_clusters[j].indexes) :
            locus_clusters[j].indexes[m] = k}
ClustersNaming(q) ==
    {j \in 1..Len(locus_clusters) :
        \E m \in 1..Len(locus_clusters[j].qnames) :
            locus_clusters[j].qnames[m] = q}

\* C5 (as claimed): after add_reads_to_clusters returns for a locus, every
\* record carries a cluster tag, exactly one emitted cluster's member-name
\* list contains the record, and the tag is that cluster's id.
C5_TagIsTheOneClusterNamingTheRead ==
    (cpc = "write" /\ IsWindow(reads)) =>
        \A k \in 1..Len(reads) :
            /\ tags[k] # NoTag
            /\ Cardinality(ClustersNaming(reads[k].qname)) = 1
            /\ \A j \in ClustersNaming(reads[k].qname) :
                  tags[k] = locus_clusters[j].cluster_id

\* C5 (amended): after add_reads_to_clusters returns, every record carries a
\* cluster tag; exactly one emitted cluster was built from the record, the
\* tag is that cluster's id and the cluster's member-name list holds the
\* record's name at the record's place. (The name of a record can also stand
\* in another cluster's list, when another record has the same name.)
C5_TagIsTheOneClusterHoldingTheRead ==
    cpc = "write" =>
        \A k \in 1..Len(reads) :
            /\ tags[k] # NoTag
            /\ Cardinality(ClustersHolding(k)) = 1
            /\ \A j \in ClustersHolding(k) :
                  /\ tags[k] = locus_clusters[j].cluster_id
                  /\ \A m \in 1..Len(locus_clusters[j].indexes) :
                        locus_clusters[j].indexes[m] = k =>
                            locus_clusters[j].qnames[m] = reads[k].qname
                  /\ Len(locus_clusters[j].qnames)
                        = Len(locus_clusters[j].indexes)

\* a locus of two records of one name, clustered apart
C5_Witness ==
    /\ cpc = "write"
    /\ IsWindow(reads)
    /\ Len(reads) = 2
    /\ reads[1].qname = reads[2].qname
    /\ Len(locus_clusters) = 2
    /\ tags[1] # tags[2]

\* C6: two records of a locus whose strand or orientation differ are never
\* members of one cluster, and every emitted cluster carries the strand and
\* the orientation of each of its members.
C6_ClustersKeepToOneKey ==
    cpc = "write" =>
        /\ \A j \in 1..Len(locus_clusters) :
              \A k \in 1..Len(reads) :
                  j \in ClustersHolding(k) =>
                      /\ reads[k].strand = locus_clusters[j].strand
                      /\ reads[k].orient = locus_clusters[j].orientation
        /\ \A k1, k2 \in 1..Len(reads) :
              (reads[k1].strand # reads[k2].strand
                  \/ reads[k1].orient # reads[k2].orient) =>
                  /\ ClustersHolding(k1) \cap ClustersHolding(k2) = {}
                  /\ tags[k1] # tags[k2]

\* two overlapping records of one strand and opposite orientations
C6_Witness ==
    /\ cpc = "write"
    /\ Len(reads) = 2
    /\ reads[1].pos < reads[2].aend /\ reads[2].pos < reads[1].aend
    /\ reads[1].strand = reads[2].strand
    /\ reads[1].orient # reads[2].orient
    /\ Len(locus_clusters) = 2

\* ------------------------------------------------- claims: ClusterTree
Spans(regs) == {<<regs[j][1], regs[j][2]>> : j \in 1..Len(regs)}
Inserted == {tree_ivs[k] : k \in 1..Len(tree_ivs)}

\* C7: whatever the order of the inserts, getregions() yields the clusters
\* (start, end, labels) that the inserts in label order yield; the intervals
\* [5,10], [9,14], [20,25] yield exactly [5,14] and [20,25].
C7_RegionsIndependentOfInsertOrder ==
    tree_todo = {} =>
        /\ ClusterTreeGetRegions(tree)
             = ClusterTreeGetRegions(
                   InsertInOrder(NewClusterTree, tree_ivs, 1))
        /\ (tree_ivs = ExampleIntervals =>
               /\ Len(ClusterTreeGetRegions(tree)) = 2
               /\ Spans(ClusterTreeGetRegions(tree))
                    = {<<5, 14>>, <<20, 25>>})

C7_Witness ==
    /\ tree_todo = {}
    /\ tree_ivs = ExampleIntervals
    /\ Spans(ClusterTreeGetRegions(tree)) = {<<5, 14>>, <<20, 25>>}

EachIntervalIsACluster ==
    /\ Len(ClusterTreeGetRegions(tree)) = Len(tree_ivs)
    /\ Spans(ClusterTreeGetRegions(tree)) = Inserted
    /\ Cardinality(Inserted) = Len(tree_ivs)

\* C8 (as claimed): when the inserted intervals are pairwise non-overlapping
\* (as half-open intervals), getregions() yields as many clusters as
\* intervals were inserted, each spanning exactly one inserted interval.
C8_DisjointIntervalsStayApart ==
    (tree_todo = {}
        /\ \A a, b \in 1..Len(tree_ivs) :
              a # b => (tree_ivs[a][2] <= tree_ivs[b][1]
                            \/ tree_ivs[b][2] <= tree_ivs[a][1]))
    => EachIntervalIsACluster

\* C8 (amended): when the inserted intervals are pairwise apart, with at
\* least one position between the end of one and the start of the other
\* (neither overlapping nor adjacent), getregions() yields as many clusters
\* as intervals were inserted, each spanning exactly one inserted interval.
C8_SeparatedIntervalsStayApart ==
    (tree_todo = {}
        /\ \A a, b \in 1..Len(tree_ivs) :
              a # b => (tree_ivs[a][2] < tree_ivs[b][1]
                            \/ tree_ivs[b][2] < tree_ivs[a][1]))
    => EachIntervalIsACluster

C8_Witness ==
    /\ tree_todo = {}
    /\ Len(tree_ivs) = 2
    /\ tree_ivs[1][2] < tree_ivs[2][1]
    /\ Len(ClusterTreeGetRegions(tree)) = 2

C10_InnerDistPassesIff ==
    fid_result # <<>> =>
        (fid_result[1] <=>
            (\/ fid_max_isize <= 0
             \/ (fid_c.inner5p <= fid_max_isize
                    /\ fid_c.inner3p <= fid_max_isize)))

\* both distances equal max_isize > 0, and the candidate passed
C10_Witness ==
    /\ fid_result = <<TRUE>>
    /\ fid_max_isize > 0
    /\ fid_c.inner5p = fid_max_isize
    /\ fid_c.inner3p = fid_max_isize

\* ----------------------------------------- claims: the chain of filter_chimeras
\* a step of the loop of lines 161-177: one more row has been read
TookRow == fpc = "filter" /\ num_chimeras' = num_chimeras + 1

\* what the step did with the row it read
Written == tmp_file'.rows = Append(tmp_file.rows, to_list(fc_c'[1]))
Dropped == tmp_file' = tmp_file

BreakpointTuple(x) == <<x.tx5p, x.end5p, x.tx3p, x.start3p>>

RowsOf(file) == {ParseRow(file[i]) : i \in 1..Len(file)}

PassesWeightedFrags(x) == x.wfrags >= UniqueFragsTenths
PassesInnerDist(x) ==
    max_isize <= 0 \/ (x.inner5p <= max_isize /\ x.inner3p <= max_isize)
IsoformOutcome(x) ==
    filter_chimeric_isoform_fraction(x, isoform_fraction, MedianIsize, bam)
PassesIsoformRatio(x) == ~IsoformOutcome(x).raised /\ IsoformOutcome(x).value

\* C11: no row of the temporary table or of output_file has its (5'
\* transcript, 5' breakpoint, 3' transcript, 3' breakpoint) in the
\* false-positive set, a candidate with its tuple in the set is dropped even
\* when it passes the three other filters, and a candidate that passes them
\* and whose tuple differs from every listed one is written.
C11_ExactlyTheListedTuplesAreRemoved ==
    [][ /\ \A x \in RowsOf(tmp_file'.rows) \cup RowsOf(output_file') :
              BreakpointTuple(x) \notin false_pos_pairs'
        /\ TookRow =>
              /\ BreakpointTuple(fc_c'[1]) \in false_pos_pairs
                    => Dropped /\ fpc' = "filter"
              /\ (/\ BreakpointTuple(fc_c'[1]) \notin false_pos_pairs
                  /\ PassesWeightedFrags(fc_c'[1])
                  /\ PassesInnerDist(fc_c'[1])
                  /\ PassesIsoformRatio(fc_c'[1]))
                    => Written ]_vars

\* the first row, one breakpoint away from the listed tuple, was written; the
\* second, the listed tuple itself, passes the other filters and was dropped
C11_Witness ==
    /\ fpc = "filter"
    /\ num_chimeras = 2
    /\ false_pos_pairs # {}
    /\ BreakpointTuple(fc_c[1]) = <<"txA", 1, "txB", 0>>
    /\ PassesWeightedFrags(fc_c[1])
    /\ PassesInnerDist(fc_c[1])
    /\ PassesIsoformRatio(fc_c[1])
    /\ Len(tmp_file.rows) = 1
    /\ BreakpointTuple(ParseRow(tmp_file.rows[1])) = <<"txA", 2, "txB", 0>>

\* ------------------------- claims: filter_chimeric_isoform_fraction on its own
IsoformReturned == icf_result # <<>> /\ ~icf_result[1].raised
NumWildtype == Cardinality(icf_result[1].wildtype_frags)

\* C12: filter_chimeric_isoform_fraction passes iff the chimeric fragment
\* count over max(wild-type fragment count, 1) is >= frac; with no wild-type
\* fragment the denominator is 1 and it passes iff the chimeric fragment
\* count is >= frac (frac in tenths).
C12_PassesIffRatioReachesFraction ==
    IsoformReturned =>
        /\ icf_result[1].value <=>
              (icf_c.nfrags * 10 >=
                  icf_frac * (IF NumWildtype >= 1 THEN NumWildtype ELSE 1))
        /\ NumWildtype = 0 =>
              (icf_result[1].value <=> icf_c.nfrags * 10 >= icf_frac)

\* no wild-type fragment, one chimeric fragment against a fraction of 1.0
C12_Witness ==
    /\ IsoformReturned
    /\ NumWildtype = 0
    /\ icf_c.nfrags = 1
    /\ icf_frac = 10
    /\ icf_result[1].value

\* the window of median_isize around the breakpoint, clamped to the transcript
IsoformWindow ==
    <<IF icf_c.end5p - icf_median_isize > 0
      THEN icf_c.end5p - icf_median_isize ELSE 0,
      IF icf_c.end5p + icf_median_isize < Lengths[1]
      THEN icf_c.end5p + icf_median_isize ELSE Lengths[1]>>

\* the alignments of query name q fetched in the window
FetchedOf(q) ==
    {r \in icf_bam : /\ r.qname = q
                     /\ r.rname = GeneRef(icf_c.tx5p)
                     /\ r.pos < IsoformWindow[2]
                     /\ r.aend > IsoformWindow[1]}

\* C13: a fragment is counted as wild-type iff some alignment of it is
\* fetched in the window and the smallest start of its fetched alignments is
\* < the breakpoint < the largest end of them; a fragment is counted once.
C13_WildtypeIffStraddlesBreakpoint ==
    IsoformReturned =>
        icf_result[1].wildtype_frags =
            {q \in {r.qname : r \in icf_bam} :
                /\ FetchedOf(q) # {}
                /\ \E r \in FetchedOf(q) : r.pos < icf_c.end5p
                /\ \E r \in FetchedOf(q) : icf_c.end5p < r.aend}

\* C14: what a step of the loop does with the row it reads is what the
\* evaluation of all four predicates on that row would do: the run aborts
\* iff evaluating the isoform-ratio predicate raises, and otherwise the row
\* is written iff the four predicates all hold and dropped iff one fails.
C14_ChainEqualsFullEvaluation ==
    [][ TookRow =>
          /\ (fpc' = "ValueError") <=> IsoformOutcome(fc_c'[1]).raised
          /\ Written <=>
                (/\ PassesWeightedFrags(fc_c'[1])
                 /\ PassesInnerDist(fc_c'[1])
                 /\ BreakpointTuple(fc_c'[1]) \notin false_pos_pairs
                 /\ PassesIsoformRatio(fc_c'[1])) ]_vars

\* ------------------------------------ claims: get_highest_coverage_isoforms
\* the group of a survivor: the clusters of its transcripts and the genome
\* coordinates of its breakpoints
ClusterOf(tx) == tx_cluster_map[tx]
GenomeCoord(tx, pos) == <<ClusterOf(tx), "+", TxGenomeStart[tx] + pos>>
SameGroup(x, y) ==
    /\ ClusterOf(x.tx5p) = ClusterOf(y.tx5p)
    /\ ClusterOf(x.tx3p) = ClusterOf(y.tx3p)
    /\ GenomeCoord(x.tx5p, x.end5p - 1) = GenomeCoord(y.tx5p, y.end5p - 1)
    /\ GenomeCoord(x.tx3p, x.start3p) = GenomeCoord(y.tx3p, y.start3p)

\* (spanning positions, weighted coverage, fragments) of y is at most that
\* of x, compared lexicographically
RankAtMost(y, x) ==
    \/ y.nspan < x.nspan
    \/ y.nspan = x.nspan /\ y.wcov < x.wcov
    \/ y.nspan = x.nspan /\ y.wcov = x.wcov /\ y.nfrags <= x.nfrags

MaximalInGroup(x, rows) ==
    \A y \in rows : SameGroup(x, y) => RankAtMost(y, x)

\* C15: when get_highest_coverage_isoforms has returned, a survivor's name is
\* among the kept ones iff no survivor of its group has a lexicographically
\* larger (spanning positions, weighted coverage, fragments): of 3 and 5
\* spanning positions only the 5 is kept, and survivors tied for the maximum
\* are all kept.
C15_KeptAreTheGroupMaxima ==
    fpc = "select" =>
        \A x \in RowsOf(tmp_file.rows) :
            x.name \in kept_chimeras
                <=> MaximalInGroup(x, RowsOf(tmp_file.rows))

\* two survivors of one group with 3 and 5 spanning positions: the 5 is kept
C15_Witness ==
    /\ fpc = "select"
    /\ Len(tmp_file.rows) = 2
    /\ SameGroup(ParseRow(tmp_file.rows[1]), ParseRow(tmp_file.rows[2]))
    /\ ParseRow(tmp_file.rows[1]).nspan = 5
    /\ ParseRow(tmp_file.rows[2]).nspan = 3
    /\ kept_chimeras = {1}

\* C16: the rows written to output_file are, in the order of the temporary
\* table, exactly the survivors that are maximal within their own group;
\* survivors of other groups have no part in it.
C16_OutputIsUnionOfGroupMaxima ==
    [][ (fpc = "select" /\ fpc' = "done") =>
            output_file' =
                SelectSeq(tmp_file.rows,
                    LAMBDA row : MaximalInGroup(ParseRow(row),
                                                RowsOf(tmp_file.rows))) ]_vars

\* two survivors of the same transcripts with different breakpoints, the
\* second ranking below the first: both are in output_file
C16_Witness ==
    /\ fpc = "done"
    /\ Len(output_file) = 2
    /\ ParseRow(output_file[1]).tx5p = ParseRow(output_file[2]).tx5p
    /\ ParseRow(output_file[1]).end5p # ParseRow(output_file[2]).end5p
    /\ ParseRow(output_file[1]).nspan = 5
    /\ ParseRow(output_file[2]).nspan = 3

\* the names of the rows of a table, and the ways to hand them out anew
\* among the rows
NamesIn(rows) == {rows[i][1] : i \in 1..Len(rows)}
Renamings(rows) ==
    {f \in [NamesIn(rows) -> NamesIn(rows)] :
        \A n, m \in NamesIn(rows) : n # m => f[n] # f[m]}
Rename(rows, f) ==
    [i \in 1..Len(rows) |->
        to_list([ParseRow(rows[i]) EXCEPT !.name = f[rows[i][1]]])]

\* the places of the rows of a table that lines 189-192 retain when
\* get_highest_coverage_isoforms has returned kept
Retained(rows, kept) == {i \in 1..Len(rows) : rows[i][1] \in kept}

\* C17: the filter chain gives a candidate the same verdict under another
\* name, and on the temporary table with the names of its rows permuted
\* get_highest_coverage_isoforms retains the rows at the same places.
C17_NamesDoNotDecideRetention ==
    /\ fc_c # <<>> =>
          FilterChain([fc_c[1] EXCEPT !.name = MaxChimeras + 1])
              = FilterChain(fc_c[1])
    /\ fpc = "select" =>
          \A f \in Renamings(tmp_file.rows) :
              LET renamed == Rename(tmp_file.rows, f)
                  r == get_highest_coverage_isoforms(renamed)
              IN  /\ r.raised = "none"
                  /\ Retained(renamed, r.kept)
                        = Retained(tmp_file.rows, kept_chimeras)

\* two survivors of one group: the row with the smaller name ranks lower and
\* is not kept
C17_Witness ==
    /\ fpc = "select"
    /\ Len(tmp_file.rows) = 2
    /\ SameGroup(ParseRow(tmp_file.rows[1]), ParseRow(tmp_file.rows[2]))
    /\ ParseRow(tmp_file.rows[1]).nspan < ParseRow(tmp_file.rows[2]).nspan
    /\ kept_chimeras = {ParseRow(tmp_file.rows[2]).name}

\* ------------------------------------------ claims: per-candidate errors
\* the step of lines 178-186: the selection has been run on the temporary table
SelectStep == fpc = "filter" /\ num_chimeras' = num_chimeras /\ fpc' # fpc

KnownToGeneTable(x) ==
    x.tx5p \in DOMAIN tx_cluster_map /\ x.tx3p \in DOMAIN tx_cluster_map
KnownToBam(x) == \E t \in 1..Len(References) : References[t] = GeneRef(x.tx5p)

\* a breakpoint offset of x is past the exonic length of its transcript
OffsetOutOfRange(x) ==
    /\ KnownToGeneTable(x)
    /\ \/ x.end5p - 1 > TxExonicLength[x.tx5p]
       \/ x.start3p > TxExonicLength[x.tx3p]

\* C18: when the offset of a survivor cannot be translated, the selection
\* does not end the run with CoordinateOutOfRangeError: it goes on, and (all
\* transcripts being known) keeps what it would keep of the table without
\* the survivors whose offsets are out of range.
C18_OutOfRangeCandidateIsDropped ==
    [][ SelectStep =>
          /\ fpc' # "CoordinateOutOfRangeError"
          /\ (\A x \in RowsOf(tmp_file.rows) : KnownToGeneTable(x)) =>
                /\ fpc' = "select"
                /\ kept_chimeras' =
                      get_highest_coverage_isoforms(
                          SelectSeq(tmp_file.rows,
                              LAMBDA row : ~OffsetOutOfRange(ParseRow(row)))
                      ).kept ]_vars

\* C19: a candidate whose 5' transcript the bam file does not list is
\* dropped by the filter loop, which goes on; and the selection does not end
\* the run with KeyError on a survivor the gene table does not know: (all
\* offsets being in range) it keeps what it would keep of the table without
\* those survivors.
C19_UnknownTranscriptIsDropped ==
    [][ /\ (TookRow /\ ~KnownToBam(fc_c'[1])) => (fpc' = "filter" /\ Dropped)
        /\ SelectStep =>
              /\ fpc' # "KeyError"
              /\ (\A x \in RowsOf(tmp_file.rows) : ~OffsetOutOfRange(x)) =>
                    /\ fpc' = "select"
                    /\ kept_chimeras' =
                          get_highest_coverage_isoforms(
                              SelectSeq(tmp_file.rows,
                                  LAMBDA row : KnownToGeneTable(ParseRow(row)))
                          ).kept ]_vars

\* ------------------------------------------ claims: spanning-evidence merge
\* the read taken by this step supports its candidate under the options of
\* the run
SupportedUnderOptions(r) ==
    /\ r.left >= options.anchor_min
    /\ r.right >= options.anchor_min
    /\ r.left < options.anchor_max => r.mm_left <= options.anchor_mismatches
    /\ r.right < options.anchor_max => r.mm_right <= options.anchor_mismatches

\* C20: a realigned read is attached to its candidate iff it crosses the
\* junction by >= anchor_min bases on both sides and has <= anchor_mismatches
\* mismatches in every anchor shorter than anchor_max, for the anchor_min,
\* anchor_max and anchor_mismatches of the run's options; a read that is not
\* attached changes no count.
C20_AttachedIffAnchorsMeetTheOptions ==
    [][ (mpc = "merge" /\ num_span_reads' = num_span_reads + 1) =>
            /\ SupportedUnderOptions(span_read'[1])
                  => num_spanning' = num_spanning + 1
            /\ ~SupportedUnderOptions(span_read'[1])
                  => num_spanning' = num_spanning ]_vars

\* ------------------------------------------- claims: the loci of cluster_loci
\* the windows closed so far and the one being filled
LociAndWindow ==
    IF lpc = "loop" /\ window # <<>> THEN Append(loci, window) ELSE loci

\* smallest start and largest end of the first m records of a window
MinStart(w, m) ==
    CHOOSE s \in {bam_iter[w[i]].pos : i \in 1..m} :
        \A i \in 1..m : s <= bam_iter[w[i]].pos
MaxEnd(w, m) ==
    CHOOSE e \in {bam_iter[w[i]].aend : i \in 1..m} :
        \A i \in 1..m : e >= bam_iter[w[i]].aend

\* C25: on sorted input, of two consecutive windows the later has another
\* reference id or its smallest start is strictly greater than the largest
\* end of the earlier, and within a window each record after the first has
\* the reference id of the records before it and overlaps or touches their
\* bounds (pos <= largest end and smallest start <= aend).
C25_LociSeparatedAndConnected ==
    IsSorted(bam_iter) =>
        /\ \A j \in 1..(Len(LociAndWindow) - 1) :
              LET a == LociAndWindow[j]
                  b == LociAndWindow[j + 1]
              IN  \/ bam_iter[a[1]].rname # bam_iter[b[1]].rname
                  \/ MinStart(b, Len(b)) > MaxEnd(a, Len(a))
        /\ \A j \in 1..Len(LociAndWindow) :
              \A m \in 2..Len(LociAndWindow[j]) :
                  LET w == LociAndWindow[j]
                      r == bam_iter[w[m]]
                  IN  /\ r.rname = bam_iter[w[1]].rname
                      /\ r.pos <= MaxEnd(w, m - 1)
                      /\ MinStart(w, m - 1) <= r.aend

\* a sorted stream of one reference has ended in two loci: the second record
\* starts within the bounds of the first, the third beyond the largest end
C25_Witness ==
    /\ lpc = "done"
    /\ IsSorted(bam_iter)
    /\ Len(loci) = 2
    /\ Len(loci[1]) = 2
    /\ bam_iter[loci[1][2]].pos <= bam_iter[loci[1][1]].aend
    /\ bam_iter[loci[2][1]].rname = bam_iter[loci[1][1]].rname
    /\ MinStart(loci[2], 1) > MaxEnd(loci[1], 2)

\* C26: cluster_loci ends normally on every finite stream, every locus it
\* yields is non-empty, and on the empty stream it ends without error having
\* yielded no locus.
C26_EndsNormallyWithNonEmptyLoci ==
    /\ lpc # "UnboundLocalError"
    /\ \A j \in 1..Len(loci) : Len(loci[j]) > 0
    /\ (lpc = "done" /\ bam_iter = <<>>) => loci = <<>>


\* --------------------------------------- claims: the threaded cluster counter
\* the keys that hold a tree, in the order the dict literal lists them
LiteralOrder(rs) ==
    SelectSeq(<< <<"+", ORIENTATION_5P>>, <<"+", ORIENTATION_3P>>,
                 <<"-", ORIENTATION_5P>>, <<"-", ORIENTATION_3P>> >>,
              LAMBDA key : RnamesOf(rs, key) # {})

\* C24: a call add_reads_to_clusters(reads, n) that emits k clusters gives
\* them the ids n, n+1, ..., n+k-1 in order and returns n+k, and in whatever
\* order the trees are walked it emits as many clusters and returns the same
\* counter as the call on the same reads and the same n that walks the keys
\* in the order of the dict literal.
C24_IdsAreCounterThreaded ==
    [][(cpc = "loop" /\ cpc' = "write") =>
          LET n == next_cluster_id
              k == Len(locus_clusters')
          IN  /\ \A j \in 1..k : locus_clusters'[j].cluster_id = n + j - 1
              /\ next_cluster_id' = n + k
              /\ LET res == add_reads_to_clusters(reads', n,
                                                  LiteralOrder(reads'))
                 IN  /\ Len(res.clusters) = k
                     /\ res.next_cluster_id = n + k]_vars

\* a call that started from counter 1 has emitted two clusters
C24_Witness ==
    /\ cpc = "write"
    /\ Len(locus_clusters) = 2
    /\ locus_clusters[1].cluster_id = 1
    /\ next_cluster_id = 3


\* ------------------------------------- claims: cluster_discordant_reads runs
\* C23: a run of cluster_discordant_reads does not stop with an error before
\* its files are closed, and for each locus it prints one cluster-table row
\* per cluster of the locus.
C23_RunWritesEveryLocusAndCompletes ==
    /\ [](cpc # "NameError")
    /\ [][WriteLocus => Len(outfh') = Len(outfh) + Len(locus_clusters)]_vars


\* ------------------------------------- claims: the final output of the filter
\* C27: when filter_chimeras writes output_file, every group with a survivor
\* in the temporary table has a candidate in output_file, output_file is
\* empty iff the temporary table is, and every candidate of output_file is a
\* survivor.
C27_SelectionEmptiesNoGroup ==
    [][ (fpc = "select" /\ fpc' = "done") =>
            LET survivors == RowsOf(tmp_file.rows)
                final == RowsOf(output_file')
            IN  /\ \A x \in survivors : \E y \in final : SameGroup(x, y)
                /\ (output_file' = <<>>) <=> (tmp_file.rows = <<>>)
                /\ final \subseteq survivors ]_vars

\* two survivors of one group, the second with more spanning positions: the
\* selection has kept the second alone
C27_Witness ==
    /\ fpc = "select"
    /\ Len(tmp_file.rows) = 2
    /\ SameGroup(ParseRow(tmp_file.rows[1]), ParseRow(tmp_file.rows[2]))
    /\ ParseRow(tmp_file.rows[1]).nspan = 3
    /\ ParseRow(tmp_file.rows[2]).nspan = 5
    /\ kept_chimeras = {2}


\* s is a subsequence of t: the elements of s are elements of t at strictly
\* increasing places
IsSubsequence(s, t) ==
    \E f \in [1..Len(s) -> 1..Len(t)] :
        /\ \A i, j \in 1..Len(s) : i < j => f[i] < f[j]
        /\ \A i \in 1..Len(s) : s[i] = t[f[i]]

\* the rows of a table are rows of input_file read so far, in the order of
\* input_file and none twice (row n of input_file is the row named n)
InInputOrder(file) ==
    /\ \A i \in 1..Len(file) : ParseRow(file[i]).name \in 1..num_chimeras
    /\ \A i, j \in 1..Len(file) :
          i < j => ParseRow(file[i]).name < ParseRow(file[j]).name

NumSamples ==
    LET RECURSIVE SumTo(_)
        SumTo(i) == IF i < 0 THEN 0 ELSE fb_arr[i] + SumTo(i - 1)
    IN  SumTo(fb_max_isize - fb_min_isize)

\* the read pairs taken so far that have insert size isize and one alignment
\* per read, both on one reference
ValidPairsOfSize(isize) ==
    {k \in 1..fb_idx :
        /\ UniqueConcordant(fb_bamfh[k])
        /\ get_insert_size(fb_bamfh[k][1][1], fb_bamfh[k][2][1]) = isize}

\* C29: when max_samples is given the histogram of from_bam never holds more
\* than max_samples samples, and every sample counted at an insert size
\* within min_isize..max_isize is a read pair taken from the file whose reads
\* have one alignment each, on the same reference, and that insert size.
C29_AtMostMaxSamples ==
    fb_pc # "idle" =>
        /\ fb_max_samples # NoLimit => NumSamples <= fb_max_samples
        /\ \A i \in 0..(fb_max_isize - fb_min_isize) :
              fb_arr[i] <= Cardinality(ValidPairsOfSize(i + fb_min_isize))


\* --------------------------------- claims: the weight of a multimapped fragment
\* fractions, for the weights
Frac(n, d) == [num |-> n, den |-> d]
FracAdd(a, b) == Frac(a.num * b.den + b.num * a.den, a.den * b.den)
FracEq(a, b) == a.num * b.den = b.num * a.den

\* the weight a fragment whose alignments carry NH = nh gives to a candidate
FragmentWeight(nh) == Frac(1, nh)

\* the places in a file of the first records of the pairs of fragment q
PairPlaces(q, file) ==
    {i \in 1..Len(file) :
        file[i].qname = q /\ file[i].rec.NH # NoTag /\ file[i].rec.mate = 1}

\* the (5' reference, 3' reference) pairs fragment q supports
SupportedPairs(q, file) ==
    {<<file[i].rec.rname, file[i + 1].rec.rname>> : i \in PairPlaces(q, file)}

\* the weighted-unique-fragment score of a candidate: every fragment that
\* supports it adds its weight once
weighted_unique_frags(cand, file) ==
    LET RECURSIVE Upto(_)
        Upto(q) ==
            IF q = 0 THEN Frac(0, 1)
            ELSE IF cand \in SupportedPairs(q, file)
                 THEN FracAdd(Upto(q - 1),
                          FragmentWeight(
                              file[CHOOSE i \in PairPlaces(q, file) : TRUE]
                                  .rec.NH))
                 ELSE Upto(q - 1)
    IN  Upto(MaxFragments)

MergeFragmentStep == mrp_pc = "loop" /\ num_fragments' = num_fragments + 1

CandidatePairs == {0, 1} \X {0, 1}

C22_RereadTableEqualsWritten ==
    tbl_pc = "done" => reparsed = table

====
